---- MODULE Spec2Model ----
(***************************************************************************)
(* Change-detection and synchronisation engine of the contract bot.        *)
(* State: the SQLite tables contracts / checks / objects_history /         *)
(* requisites_history, the shared "Registry" sheet, the per-contract       *)
(* workbooks (Summary page, dated detail pages), the clock, and the        *)
(* position of the check that is in flight in check_contract_update /      *)
(* add_contract_to_master.                                                 *)
(***************************************************************************)
EXTENDS Integers, Sequences, FiniteSets, TLC

\* ------------------------------------------------------------------ bounds
MaxClock == 2
MaxDay == 2
MaxRetries == 3
MaxGuid == 1
MaxRows == 2
MaxWords == 2
MaxLen == 4

\* ------------------------------------------------------------- value sets
Ids == {"A", "B"}
OneId == {"A"}
NoId == ""
Keys == Ids \cup {NoId}
Hashes == {"h1", "h2"}
Customers == {"c1"}
NULL == "NULL"
NullTime == 0
NoRow == [absent |-> TRUE]
NoData == [none |-> TRUE]
NoCur == [none |-> TRUE]
NoRet == [none |-> TRUE]
NoPre == [none |-> TRUE]
NoInt == [none |-> TRUE]

NoSweep == [none |-> TRUE]
NoReport == [none |-> TRUE]
NoPrev == [none |-> TRUE]
NoFeed == 0 - 1
NoArg == [none |-> TRUE]
NoOut == [none |-> TRUE]

VARIABLES contracts, checks, objects_history, requisites_history,
          regSheet, summary, detail, books, today, now, pc, cur, ret, pre, interrupted,
          rss_state, sweep, report, prev,
          fpc, max_retries, attempt, tried, parse_log, slept, fres,
          fn, arg, out,
          pc2, cur2, ret2, pre2

db == <<contracts, checks, objects_history, requisites_history>>
sheets == <<regSheet, summary, detail, books>>
fetcher == <<fpc, max_retries, attempt, tried, parse_log, slept, fres>>
norm == <<fn, arg, out>>
peer == <<pc2, cur2, ret2, pre2>>
aux == <<rss_state, sweep, report, prev, fetcher, norm, peer>>
vars == <<contracts, checks, objects_history, requisites_history,
          regSheet, summary, detail, books, today, now, pc, cur, ret, pre, interrupted,
          rss_state, sweep, report, prev,
          fpc, max_retries, attempt, tried, parse_log, slept, fres,
          fn, arg, out,
          pc2, cur2, ret2, pre2>>

\* The records the remote fetch script prints on success for the requested
\* number: the hashes are SHA-256 digests, never empty.
Records(id) == [reestr_number : {id}, customer : Customers,
                objects_hash : Hashes, requisites_hash : Hashes]

\* The same records with one content only.
RecordsTwo(id) == {r \in Records(id) : r.objects_hash = "h1" /\ r.requisites_hash = "h1"}

\* The records the script can print for any requested number: reestr_number
\* starts as "" and is set from the reestrNumber the address of the page
\* carries once the page is loaded, which is the page's matter.
FetchedRecords == UNION {RecordsTwo(k) : k \in Keys}

\* ------------------------------------------------------------ SQLite side
OrEmpty(x) == IF x = NULL THEN "" ELSE x

get_last_hashes(tbl, reestr_number) ==
    IF tbl[reestr_number] # NoRow
    THEN <<OrEmpty(tbl[reestr_number].objects_hash),
           OrEmpty(tbl[reestr_number].requisites_hash)>>
    ELSE <<"", "">>

get_last_changed(tbl, reestr_number) ==
    IF tbl[reestr_number] # NoRow /\ tbl[reestr_number].last_changed # NullTime
    THEN tbl[reestr_number].last_changed
    ELSE NullTime

\* Mutant: the first observation is taken as a baseline, not as a change.
determine_changes_baseline(tbl, data) ==
    LET last == get_last_hashes(tbl, data.reestr_number)
    IN  [objects_changed |-> last[1] # "" /\ data.objects_hash # last[1],
         requisites_changed |-> last[2] # "" /\ data.requisites_hash # last[2]]

determine_changes(tbl, data) ==
    LET last == get_last_hashes(tbl, data.reestr_number)
    IN  [objects_changed |-> data.objects_hash # last[1],
         requisites_changed |-> data.requisites_hash # last[2]]

\* Mutant: a check whose hashes repeat the last row is not logged again.
record_check_dedup(tbl, data, t) ==
    IF Len(tbl) > 0 /\ tbl[Len(tbl)].reestr_number = data.reestr_number
                    /\ tbl[Len(tbl)].objects_hash = data.objects_hash
                    /\ tbl[Len(tbl)].requisites_hash = data.requisites_hash
    THEN tbl
    ELSE Append(tbl, [reestr_number |-> data.reestr_number, checked_at |-> t,
                      objects_hash |-> data.objects_hash,
                      requisites_hash |-> data.requisites_hash])

record_check(tbl, data, t) ==
    Append(tbl, [reestr_number |-> data.reestr_number, checked_at |-> t,
                 objects_hash |-> data.objects_hash,
                 requisites_hash |-> data.requisites_hash])

\* Mutant: last_changed is stamped on every upsert.
upsert_contract_stamp(tbl, data, objects_changed, requisites_changed, t) ==
    [tbl EXCEPT ![data.reestr_number] =
        [customer |-> data.customer,
         objects_hash |-> data.objects_hash,
         requisites_hash |-> data.requisites_hash,
         last_checked |-> t,
         last_changed |-> t]]

\* Mutant: the objects hash is bound to both hash columns.
upsert_contract_swapped(tbl, data, objects_changed, requisites_changed, t) ==
    [tbl EXCEPT ![data.reestr_number] =
        [customer |-> data.customer,
         objects_hash |-> data.objects_hash,
         requisites_hash |-> data.objects_hash,
         last_checked |-> t,
         last_changed |-> IF objects_changed \/ requisites_changed
                          THEN t
                          ELSE get_last_changed(tbl, data.reestr_number)]]

upsert_contract(tbl, data, objects_changed, requisites_changed, t) ==
    [tbl EXCEPT ![data.reestr_number] =
        [customer |-> data.customer,
         objects_hash |-> data.objects_hash,
         requisites_hash |-> data.requisites_hash,
         last_checked |-> t,
         last_changed |-> IF objects_changed \/ requisites_changed
                          THEN t
                          ELSE get_last_changed(tbl, data.reestr_number)]]

\* Mutant: a new snapshot takes the place of the earlier ones of the number.
record_history_latest(oh, rh, data, objects_changed, requisites_changed, t) ==
    [objects_history |->
        IF objects_changed
        THEN Append(SelectSeq(oh, LAMBDA r : r.reestr_number # data.reestr_number),
                    [reestr_number |-> data.reestr_number, changed_at |-> t,
                     hash |-> data.objects_hash])
        ELSE oh,
     requisites_history |->
        IF requisites_changed
        THEN Append(SelectSeq(rh, LAMBDA r : r.reestr_number # data.reestr_number),
                    [reestr_number |-> data.reestr_number, changed_at |-> t,
                     hash |-> data.requisites_hash])
        ELSE rh]

record_history(oh, rh, data, objects_changed, requisites_changed, t) ==
    [objects_history |->
        IF objects_changed
        THEN Append(oh, [reestr_number |-> data.reestr_number, changed_at |-> t,
                         hash |-> data.objects_hash])
        ELSE oh,
     requisites_history |->
        IF requisites_changed
        THEN Append(rh, [reestr_number |-> data.reestr_number, changed_at |-> t,
                         hash |-> data.requisites_hash])
        ELSE rh]

get_contract_numbers_from_db(tbl) == {k \in Keys : tbl[k] # NoRow /\ k # ""}

StubRow == [customer |-> NULL, objects_hash |-> NULL, requisites_hash |-> NULL,
            last_checked |-> NullTime, last_changed |-> NullTime]

\* Mutant: INSERT OR REPLACE in place of INSERT OR IGNORE.
ensure_contract_stub_replace(tbl, reestr_number) ==
    [tbl EXCEPT ![reestr_number] = StubRow]

ensure_contract_stub(tbl, reestr_number) ==
    IF tbl[reestr_number] = NoRow
    THEN [tbl EXCEPT ![reestr_number] = StubRow]
    ELSE tbl

\* The second INSERT OR IGNORE of ensure_contract_stub: the feed row of the
\* number, with no marker seen yet.
ensure_rss_state(tbl, reestr_number) ==
    IF tbl[reestr_number] = NoRow
    THEN [tbl EXCEPT ![reestr_number] = [last_guid |-> NullTime]]
    ELSE tbl

DeleteRows(tbl, reestr_number) ==
    SelectSeq(tbl, LAMBDA r : r.reestr_number # reestr_number)

\* ------------------------------------------------------------- sheet side
upsert_registry_row(sheet, data, objects_changed, requisites_changed, t) ==
    [sheet EXCEPT ![data.reestr_number] =
        [customer |-> data.customer,
         objects_hash |-> data.objects_hash,
         requisites_hash |-> data.requisites_hash,
         last_checked |-> t,
         last_changed |-> IF objects_changed \/ requisites_changed
                          THEN t ELSE NullTime]]

StubData(number) == [reestr_number |-> number, customer |-> "",
                     objects_hash |-> "", requisites_hash |-> ""]

\* ------------------------------------------------------------------ state
Snapshot == [contracts |-> contracts, checks |-> checks,
             objects_history |-> objects_history,
             requisites_history |-> requisites_history,
             summary |-> summary, detail |-> detail, books |-> books]

\* The dated detail pages of one workbook: how many pages carry each date.
NoPages == [d \in 1..MaxDay |-> 0]

Init ==
    /\ contracts = [k \in Keys |-> NoRow]
    /\ checks = <<>>
    /\ objects_history = <<>>
    /\ requisites_history = <<>>
    /\ regSheet = [k \in Keys |-> NoRow]
    /\ summary = [k \in Keys |-> 0]
    /\ detail = [k \in Keys |-> NoPages]
    /\ books = [k \in Keys |-> 0]
    /\ today = 1
    /\ now = 0
    /\ pc = "idle"
    /\ cur = NoCur
    /\ ret = NoRet
    /\ pre = NoPre
    /\ interrupted = NoInt
    /\ rss_state = [k \in Keys |-> NoRow]
    /\ sweep = NoSweep
    /\ report = NoReport
    /\ prev = NoPrev
    /\ fpc = "idle"
    /\ max_retries = 0
    /\ attempt = 0
    /\ tried = <<>>
    /\ parse_log = <<>>
    /\ slept = <<>>
    /\ fres = "none"
    /\ fn = "none"
    /\ arg = NoArg
    /\ out = NoOut
    /\ pc2 = "idle"
    /\ cur2 = NoCur
    /\ ret2 = NoRet
    /\ pre2 = NoPre

\* --------------------------------------------------- check_contract_update
\* Mutant: the poll is logged before the fetch result is looked at.
CheckFetchFail_logged(contract_number) ==
    /\ pc = "idle"
    /\ pc' = "returned"
    /\ ret' = [op |-> "check", contract_number |-> contract_number,
               ok |-> FALSE, changed |-> FALSE, fetched |-> FALSE,
               persisted |-> FALSE, sheet_url |-> FALSE,
               objects_changed |-> FALSE, requisites_changed |-> FALSE,
               data |-> NoData, at |-> "fetch", fault |-> "none",
               rewrote |-> FALSE, created |-> FALSE]
    /\ pre' = Snapshot
    /\ checks' = Append(checks, [reestr_number |-> contract_number, checked_at |-> now,
                                 objects_hash |-> "", requisites_hash |-> ""])
    /\ UNCHANGED <<contracts, objects_history, requisites_history, sheets,
                   today, now, cur, interrupted, aux>>

\* fetch_contract_data_via_ssh returned None, an empty value, or a record with
\* an "error" key: report and return (False, False).
CheckFetchFail(contract_number) ==
    /\ pc = "idle"
    /\ pc' = "returned"
    /\ ret' = [op |-> "check", contract_number |-> contract_number,
               ok |-> FALSE, changed |-> FALSE, fetched |-> FALSE,
               persisted |-> FALSE, sheet_url |-> FALSE,
               objects_changed |-> FALSE, requisites_changed |-> FALSE,
               data |-> NoData, at |-> "fetch", fault |-> "none",
               rewrote |-> FALSE, created |-> FALSE]
    /\ pre' = Snapshot
    /\ UNCHANGED <<db, sheets, today, now, cur, interrupted, aux>>

\* The fetch succeeded: determine_changes(data) is evaluated against the
\* registry and add_contract_to_master is entered.
CheckFetchOK(contract_number, data) ==
    /\ pc = "idle"
    /\ now < MaxClock
    /\ LET ch == determine_changes(contracts, data)
       IN  cur' = [contract_number |-> contract_number, data |-> data,
                   objects_changed |-> ch.objects_changed,
                   requisites_changed |-> ch.requisites_changed]
    /\ now' = now + 1
    /\ pc' = "master"
    /\ pre' = Snapshot
    /\ UNCHANGED <<db, sheets, today, ret, interrupted, aux>>

\* check_contract_update returns (True, objects_changed or requisites_changed)
\* whatever add_contract_to_master returned.  at is the place where
\* add_contract_to_master stopped, fault what stopped it; rewrote and created
\* say whether the Summary page was refilled and a detail page added.
Returned(url, persisted, fault, rewrote, created) ==
    /\ pc' = "returned"
    /\ ret' = [op |-> "check", contract_number |-> cur.contract_number,
               ok |-> TRUE,
               changed |-> cur.objects_changed \/ cur.requisites_changed,
               fetched |-> TRUE, persisted |-> persisted, sheet_url |-> url,
               objects_changed |-> cur.objects_changed,
               requisites_changed |-> cur.requisites_changed,
               data |-> cur.data, at |-> pc, fault |-> fault,
               rewrote |-> rewrote, created |-> created]
    /\ cur' = NoCur
    /\ interrupted' = NoInt

Finish(url, persisted) == Returned(url, persisted, "none", FALSE, FALSE)

\* add_contract_to_master: get_gc() gave None, or the Drive folder is not
\* accessible; it returns (None, message) before any table is written.
MasterNoAccess ==
    /\ pc = "master"
    /\ Finish(FALSE, FALSE)
    /\ UNCHANGED <<db, sheets, today, now, pre, aux>>

\* sqlite3 raises in record_check, record_history or upsert_contract (a locked
\* or unwritable database): the except clause of add_contract_to_master turns
\* it into (None, str(e)), and check_contract_update goes on to return
\* (True, changed).  The statements committed before it stay.
PersistFail ==
    /\ pc \in {"master", "record_history", "upsert_contract"}
    /\ Returned(FALSE, FALSE, "db", FALSE, FALSE)
    /\ UNCHANGED <<db, sheets, today, now, pre, aux>>

\* sqlite3 raises in get_last_hashes under determine_changes, which
\* check_contract_update calls outside any try: the exception leaves
\* check_contract_update.
DetermineChangesRaises(contract_number, data) ==
    /\ pc = "idle"
    /\ pc' = "raised"
    /\ ret' = [op |-> "check", contract_number |-> contract_number,
               ok |-> FALSE, changed |-> FALSE, fetched |-> TRUE,
               persisted |-> FALSE, sheet_url |-> FALSE,
               objects_changed |-> FALSE, requisites_changed |-> FALSE,
               data |-> data, at |-> "determine_changes", fault |-> "db",
               rewrote |-> FALSE, created |-> FALSE]
    /\ pre' = Snapshot
    /\ UNCHANGED <<db, sheets, today, now, cur, interrupted, aux>>

RecordCheckStep ==
    /\ pc = "master"
    /\ checks' = record_check(checks, cur.data, now)
    /\ pc' = "record_history"
    /\ UNCHANGED <<contracts, objects_history, requisites_history, sheets,
                   today, now, cur, ret, pre, interrupted, aux>>

RecordHistoryStep ==
    /\ pc = "record_history"
    /\ LET h == record_history(objects_history, requisites_history, cur.data,
                               cur.objects_changed, cur.requisites_changed, now)
       IN  /\ objects_history' = h.objects_history
           /\ requisites_history' = h.requisites_history
    /\ pc' = "upsert_contract"
    /\ UNCHANGED <<contracts, checks, sheets, today, now, cur, ret, pre, interrupted, aux>>

UpsertContractStep ==
    /\ pc = "upsert_contract"
    /\ contracts' = upsert_contract(contracts, cur.data, cur.objects_changed,
                                    cur.requisites_changed, now)
    /\ pc' = "publish"
    /\ UNCHANGED <<checks, objects_history, requisites_history, sheets,
                   today, now, cur, ret, pre, interrupted, aux>>

\* The rest of add_contract_to_master after the tables are written.  reg, sum
\* and det say how far the sheet and drive calls get before one of them raises
\* (the except clause then returns (None, str(e))):
\*   reg  upsert_registry_row writes the row ("ok"), returns silently because
\*        its own get_gc() gives None ("skip"), or raises;
\*   sum  "ok": find_existing_contract_sheet_id finds the workbook of the
\*        number and its Summary page is cleared and refilled; "new": it gives
\*        None (there is no workbook, the Drive service is missing, or the
\*        listing raised and was logged), a workbook is created and its
\*        Summary page filled; "new_raise": a workbook is created and a later
\*        call on it raises; "raise": a call raises before any workbook is
\*        created or written;
\*   det  the rows of a new detail page are written, or a call raises.
\* detail and summary describe the workbook the next lookup finds (the one
\* modified last); books counts the workbooks created for the number.
\* The dated detail page is skipped when nothing changed and today's page
\* exists; add_worksheet raises when a page of that title exists already.
PubUnchanged == ~cur.objects_changed /\ ~cur.requisites_changed
PubOpens(reg, sum) ==
    /\ reg # "raise"
    /\ sum = "ok" => books[cur.data.reestr_number] > 0
PubNewBook(reg, sum) == reg # "raise" /\ sum \in {"new", "new_raise"}
PubPages(reg, sum) ==
    IF PubNewBook(reg, sum) THEN NoPages ELSE detail[cur.data.reestr_number]
PubReachedDetail(reg, sum) == reg # "raise" /\ sum \in {"ok", "new"}
PubSkipDetail(reg, sum) ==
    PubReachedDetail(reg, sum) /\ PubUnchanged
        /\ PubPages(reg, sum)[today] > 0
\* Mutant: a second page of the same date is accepted.
PubCreated_dup(reg, sum) ==
    PubReachedDetail(reg, sum) /\ ~PubSkipDetail(reg, sum)

PubCreated(reg, sum) ==
    PubReachedDetail(reg, sum) /\ ~PubSkipDetail(reg, sum)
        /\ PubPages(reg, sum)[today] = 0
PubUrl(reg, sum, det) ==
    PubSkipDetail(reg, sum) \/ (PubCreated(reg, sum) /\ det = "ok")

\* Mutant: the Summary page is refilled only when something changed.
PublishSheets_lazy(reg, sum, det) ==
    /\ regSheet' = IF reg = "ok"
                   THEN upsert_registry_row(regSheet, cur.data, cur.objects_changed,
                                            cur.requisites_changed, now)
                   ELSE regSheet
    /\ books' = IF PubNewBook(reg, sum)
                THEN [books EXCEPT ![cur.data.reestr_number] = @ + 1]
                ELSE books
    /\ summary' = IF PubReachedDetail(reg, sum) /\ ~PubUnchanged
                  THEN [summary EXCEPT ![cur.data.reestr_number] =
                            IF @ < MaxClock THEN @ + 1 ELSE @]
                  ELSE summary
    /\ detail' = [detail EXCEPT ![cur.data.reestr_number] =
                    IF PubCreated(reg, sum)
                    THEN [PubPages(reg, sum) EXCEPT ![today] = @ + 1]
                    ELSE PubPages(reg, sum)]

PublishSheets(reg, sum, det) ==
    /\ regSheet' = IF reg = "ok"
                   THEN upsert_registry_row(regSheet, cur.data, cur.objects_changed,
                                            cur.requisites_changed, now)
                   ELSE regSheet
    /\ books' = IF PubNewBook(reg, sum)
                THEN [books EXCEPT ![cur.data.reestr_number] = @ + 1]
                ELSE books
    /\ summary' = IF PubReachedDetail(reg, sum)
                  THEN [summary EXCEPT ![cur.data.reestr_number] =
                            IF @ < MaxClock THEN @ + 1 ELSE @]
                  ELSE summary
    /\ detail' = [detail EXCEPT ![cur.data.reestr_number] =
                    IF PubCreated(reg, sum)
                    THEN [PubPages(reg, sum) EXCEPT ![today] = @ + 1]
                    ELSE PubPages(reg, sum)]

\* Mutant: a failed publish undoes the writes of the check.
PublishStep_rollback ==
    /\ pc = "publish"
    /\ \E reg \in {"ok", "skip", "raise"},
          sum \in {"ok", "new", "new_raise", "raise"}, det \in {"ok", "raise"} :
          /\ PubOpens(reg, sum)
          /\ PublishSheets(reg, sum, det)
          /\ Returned(PubUrl(reg, sum, det), TRUE, "none",
                      PubReachedDetail(reg, sum), PubCreated(reg, sum))
          /\ IF PubUrl(reg, sum, det)
             THEN UNCHANGED db
             ELSE /\ contracts' = pre.contracts
                  /\ checks' = pre.checks
                  /\ objects_history' = pre.objects_history
                  /\ requisites_history' = pre.requisites_history
    /\ UNCHANGED <<today, now, pre, aux>>

PublishStep ==
    /\ pc = "publish"
    /\ \E reg \in {"ok", "skip", "raise"},
          sum \in {"ok", "new", "new_raise", "raise"}, det \in {"ok", "raise"} :
          /\ PubOpens(reg, sum)
          /\ PublishSheets(reg, sum, det)
          /\ Returned(PubUrl(reg, sum, det), TRUE, "none",
                      PubReachedDetail(reg, sum), PubCreated(reg, sum))
    /\ UNCHANGED <<db, today, now, pre, aux>>

\* The chat the messages of a check go to, and its silent flag:
\* handle_check_contract passes message.chat.id and silent=False,
\* handle_check_all message.chat.id and silent=True, daily_check and
\* check_rss_all None and silent=True.
Sweeping == sweep # NoSweep
ChatId == IF sweep = NoSweep THEN TRUE ELSE sweep.kind = "check_all"
Silent == sweep # NoSweep

\* safe_send has no try: bot.send_message raising (the error message after a
\* failed fetch, or the result message of a check that is not silent) leaves
\* check_contract_update as an exception where it was about to return.
NotifyRaise ==
    /\ pc = "returned"
    /\ ret.op = "check"
    /\ ChatId
    /\ ~ret.fetched \/ ~Silent
    /\ pc' = "raised"
    /\ ret' = [ret EXCEPT !.fault = "notify"]
    /\ UNCHANGED <<db, sheets, today, now, cur, pre, interrupted, aux>>

\* The exception leaves handle_check_contract; the bot's dispatcher logs it.
RaiseSeen ==
    /\ pc = "raised"
    /\ sweep = NoSweep
    /\ pc' = "idle"
    /\ ret' = NoRet
    /\ pre' = NoPre
    /\ UNCHANGED <<db, sheets, today, now, cur, interrupted, aux>>

\* The caller takes the returned value (the loop of a sweep takes the value
\* of its own checks in SweepTake).
CheckReturn ==
    /\ pc = "returned"
    /\ Sweeping => ret.op # "check"
    /\ pc' = "idle"
    /\ ret' = NoRet
    /\ pre' = NoPre
    /\ UNCHANGED <<db, sheets, today, now, cur, interrupted, aux>>

\* The caller takes the returned value; prev keeps what the call did when it
\* was a call that reached the publishing part, for the next call to be
\* compared with.
CheckReturnKeep ==
    /\ pc = "returned"
    /\ ~Sweeping
    /\ pc' = "idle"
    /\ prev' = IF ret.op = "check" /\ ret.at = "publish"
               THEN [data |-> ret.data, today |-> today,
                     rewrote |-> ret.rewrote, created |-> ret.created,
                     summary_before |-> pre.summary[ret.data.reestr_number],
                     detail_before |->
                         IF books[ret.data.reestr_number] = pre.books[ret.data.reestr_number]
                         THEN pre.detail[ret.data.reestr_number][today]
                         ELSE 0]
               ELSE NoPrev
    /\ ret' = NoRet
    /\ pre' = NoPre
    /\ UNCHANGED <<db, sheets, today, now, cur, interrupted,
                   rss_state, sweep, report, fetcher, norm, peer>>

\* The process dies while a check is in flight; committed rows stay.
Crash ==
    /\ pc \in {"master", "record_history", "upsert_contract", "publish"}
    /\ interrupted' = [contract_number |-> cur.contract_number, data |-> cur.data,
                       objects_changed |-> cur.objects_changed,
                       requisites_changed |-> cur.requisites_changed,
                       at |-> pc]
    /\ pc' = "idle"
    /\ cur' = NoCur
    /\ pre' = NoPre
    /\ UNCHANGED <<db, sheets, today, now, ret, aux>>

\* ------------------------------------------------ registry maintenance
\* add_contracts_to_registry([number]): stub in the table, then a row of
\* blanks in the Registry sheet (when the sheet client is available).
Register(number) ==
    /\ pc = "idle"
    /\ contracts' = ensure_contract_stub(contracts, number)
    /\ rss_state' = ensure_rss_state(rss_state, number)
    /\ \/ regSheet' = upsert_registry_row(regSheet, StubData(number), FALSE, FALSE, now)
       \/ regSheet' = regSheet
    /\ UNCHANGED <<checks, objects_history, requisites_history, summary, detail, books,
                   today, now, pc, cur, ret, pre, interrupted, sweep, report, prev, fetcher, norm, peer>>

\* Mutant: the checks table is left out of the cascade.
remove_contract_from_registry_keepchecks(number) ==
    /\ contracts' = [contracts EXCEPT ![number] = NoRow]
    /\ objects_history' = DeleteRows(objects_history, number)
    /\ requisites_history' = DeleteRows(requisites_history, number)
    /\ checks' = checks
    /\ \/ regSheet' = [regSheet EXCEPT ![number] = NoRow]
       \/ regSheet' = regSheet

\* The four DELETEs, then the row of the Registry sheet when the sheet client
\* is available and the call does not fail.
remove_contract_from_registry(number) ==
    /\ contracts' = [contracts EXCEPT ![number] = NoRow]
    /\ objects_history' = DeleteRows(objects_history, number)
    /\ requisites_history' = DeleteRows(requisites_history, number)
    /\ checks' = DeleteRows(checks, number)
    /\ \/ regSheet' = [regSheet EXCEPT ![number] = NoRow]
       \/ regSheet' = regSheet

\* handle_remove_contract
Remove(number) ==
    /\ pc = "idle"
    /\ remove_contract_from_registry(number)
    /\ pc' = "returned"
    /\ ret' = [op |-> "remove", contract_number |-> number,
               ok |-> TRUE, changed |-> FALSE, fetched |-> FALSE,
               persisted |-> FALSE, sheet_url |-> FALSE,
               objects_changed |-> FALSE, requisites_changed |-> FALSE,
               data |-> NoData, at |-> "remove", fault |-> "none",
               rewrote |-> FALSE, created |-> FALSE]
    /\ pre' = Snapshot
    /\ interrupted' = NoInt
    /\ UNCHANGED <<summary, detail, books, today, now, cur, aux>>

clear_registry ==
    /\ contracts' = [k \in Keys |-> NoRow]
    /\ objects_history' = <<>>
    /\ requisites_history' = <<>>
    /\ checks' = <<>>
    /\ \/ regSheet' = [k \in Keys |-> NoRow]
       \/ regSheet' = regSheet

\* handle_clear_registry
Clear ==
    /\ pc = "idle"
    /\ clear_registry
    /\ interrupted' = NoInt
    /\ UNCHANGED <<summary, detail, books, today, now, pc, cur, ret, pre, aux>>

\* The calendar date of datetime.date.today() moves on.
NextDay ==
    /\ pc = "idle"
    /\ today < MaxDay
    /\ today' = today + 1
    /\ UNCHANGED <<db, sheets, now, pc, cur, ret, pre, interrupted, aux>>

\* ----------------------------------------------------------------- sweeps
\* The orders in which a query without ORDER BY may list the numbers of S.
Orders(S) ==
    {q \in [1..Cardinality(S) -> S] : \A i, j \in 1..Cardinality(S) : q[i] = q[j] => i = j}

\* Column 1 of the Registry sheet, valid numbers only.
get_contract_numbers_from_registry(sheet) == {k \in Ids : sheet[k] # NoRow}

\* The numbers a sweep of each kind walks through:
\*   "daily"      daily_check.main: get_contract_numbers_from_db();
\*   "check_all"  handle_check_all: the Registry sheet, or the contracts table
\*                when the sheet gives nothing (it is empty or cannot be read);
\*   "rss"        check_rss_all.main: the rows of rss_state.
SweepLists(kind) ==
    CASE kind = "daily" -> Orders(get_contract_numbers_from_db(contracts))
      [] kind = "check_all" ->
            IF get_contract_numbers_from_registry(regSheet) # {}
            THEN Orders(get_contract_numbers_from_registry(regSheet))
                    \cup Orders(get_contract_numbers_from_db(contracts))
            ELSE Orders(get_contract_numbers_from_db(contracts))
      [] kind = "rss" -> Orders({k \in Ids : rss_state[k] # NoRow})

SweepStart(kind, list) ==
    /\ pc = "idle"
    /\ ~Sweeping
    /\ list \in SweepLists(kind)
    /\ list # <<>>
    /\ sweep' = [kind |-> kind, queue |-> list, n |-> Len(list),
                 processed |-> 0, changed |-> 0, triggered |-> FALSE,
                 fetch_failed |-> {}, faults |-> {},
                 polls |-> <<>>, invoked |-> {}, raised |-> {}]
    /\ report' = NoReport
    /\ UNCHANGED <<db, sheets, today, now, pc, cur, ret, pre, interrupted,
                   rss_state, prev, fetcher, norm, peer>>

\* check_rss_all: the feed of the row gives no item (status other than 200,
\* an empty channel, or an exception on the way): next row.  polls keeps, for
\* every row, the marker the feed showed and the marker that was stored.
RssSkip ==
    /\ pc = "idle"
    /\ Sweeping
    /\ sweep.kind = "rss"
    /\ sweep.queue # <<>>
    /\ ~sweep.triggered
    /\ sweep' = [sweep EXCEPT
                    !.queue = Tail(@),
                    !.polls = Append(@, [id |-> Head(sweep.queue), latest |-> NoFeed,
                                         stored |-> rss_state[Head(sweep.queue)].last_guid])]
    /\ UNCHANGED <<db, sheets, today, now, pc, cur, ret, pre, interrupted,
                   rss_state, report, prev, fetcher, norm, peer>>

\* Mutant: a marker already seen triggers the check as well.
RssSame_trigger(guid) ==
    /\ pc = "idle"
    /\ Sweeping
    /\ sweep.kind = "rss"
    /\ sweep.queue # <<>>
    /\ ~sweep.triggered
    /\ rss_state[Head(sweep.queue)].last_guid # NullTime
    /\ guid = rss_state[Head(sweep.queue)].last_guid
    /\ sweep' = [sweep EXCEPT
                    !.triggered = TRUE,
                    !.polls = Append(@, [id |-> Head(sweep.queue), latest |-> guid,
                                         stored |-> rss_state[Head(sweep.queue)].last_guid])]
    /\ UNCHANGED <<db, sheets, today, now, pc, cur, ret, pre, interrupted,
                   rss_state, report, prev, fetcher, norm, peer>>

\* check_rss_all: last_guid is set and the newest item carries it:
\* update_state with the same marker, next row.
RssSame(guid) ==
    /\ pc = "idle"
    /\ Sweeping
    /\ sweep.kind = "rss"
    /\ sweep.queue # <<>>
    /\ ~sweep.triggered
    /\ rss_state[Head(sweep.queue)].last_guid # NullTime
    /\ guid = rss_state[Head(sweep.queue)].last_guid
    /\ sweep' = [sweep EXCEPT
                    !.queue = Tail(@),
                    !.polls = Append(@, [id |-> Head(sweep.queue), latest |-> guid,
                                         stored |-> rss_state[Head(sweep.queue)].last_guid])]
    /\ UNCHANGED <<db, sheets, today, now, pc, cur, ret, pre, interrupted,
                   rss_state, report, prev, fetcher, norm, peer>>

\* check_rss_all: last_guid is NULL or empty, or the newest item carries
\* another marker: add_event, update_state, then (RSS_TRIGGER_PARSE)
\* check_contract_update(None, number).  The marker 0 is the empty guid of an
\* item without one; NULL and the empty marker are both 0.
RssNew(guid) ==
    /\ pc = "idle"
    /\ Sweeping
    /\ sweep.kind = "rss"
    /\ sweep.queue # <<>>
    /\ ~sweep.triggered
    /\ ~(rss_state[Head(sweep.queue)].last_guid # NullTime
            /\ guid = rss_state[Head(sweep.queue)].last_guid)
    /\ rss_state' = [rss_state EXCEPT ![Head(sweep.queue)].last_guid = guid]
    /\ sweep' = [sweep EXCEPT
                    !.triggered = TRUE,
                    !.polls = Append(@, [id |-> Head(sweep.queue), latest |-> guid,
                                         stored |-> rss_state[Head(sweep.queue)].last_guid])]
    /\ UNCHANGED <<db, sheets, today, now, pc, cur, ret, pre, interrupted,
                   report, prev, fetcher, norm, peer>>

\* The loop body calls check_contract_update for the next number.
SweepReady ==
    /\ Sweeping
    /\ sweep.queue # <<>>
    /\ sweep.kind = "rss" => sweep.triggered

SweepCheckFail == SweepReady /\ CheckFetchFail(Head(sweep.queue))
SweepCheckOK(data) ==
    /\ SweepReady
    /\ data.reestr_number = Head(sweep.queue)
    /\ CheckFetchOK(Head(sweep.queue), data)
SweepDetermineRaises(data) ==
    /\ SweepReady
    /\ data.reestr_number = Head(sweep.queue)
    /\ DetermineChangesRaises(Head(sweep.queue), data)

\* ok, did_change = check_contract_update(...); the counters of the loop.
SweepTake ==
    /\ pc = "returned"
    /\ ret.op = "check"
    /\ Sweeping
    /\ sweep' = [sweep EXCEPT
                    !.queue = Tail(@),
                    !.processed = IF ret.ok /\ sweep.kind # "rss" THEN @ + 1 ELSE @,
                    !.changed = IF ret.ok /\ ret.changed /\ sweep.kind # "rss"
                                THEN @ + 1 ELSE @,
                    !.triggered = FALSE,
                    !.fetch_failed = IF ret.fetched THEN @ ELSE @ \cup {ret.contract_number},
                    !.faults = IF ret.fault = "none" THEN @ ELSE @ \cup {ret.fault},
                    !.invoked = @ \cup {ret.contract_number}]
    /\ pc' = "idle"
    /\ ret' = NoRet
    /\ pre' = NoPre
    /\ UNCHANGED <<db, sheets, today, now, cur, interrupted,
                   rss_state, report, prev, fetcher, norm, peer>>

\* An exception leaves check_contract_update.  check_rss_all catches it and
\* goes to the next row; daily_check.main and handle_check_all have no try:
\* the loop ends there, the numbers left are not checked and the closing
\* line is not written.
SweepRaised ==
    /\ pc = "raised"
    /\ Sweeping
    /\ IF sweep.kind = "rss"
       THEN /\ sweep' = [sweep EXCEPT !.queue = Tail(@), !.triggered = FALSE,
                                      !.faults = @ \cup {ret.fault},
                                      !.invoked = @ \cup {ret.contract_number},
                                      !.raised = @ \cup {ret.contract_number}]
            /\ report' = report
            /\ pc' = "idle"
       ELSE /\ sweep' = NoSweep
            /\ report' = [kind |-> sweep.kind, aborted |-> TRUE, text |-> <<>>,
                          n |-> sweep.n, unchecked |-> Tail(sweep.queue),
                          fetch_failed |-> IF ret.fetched THEN sweep.fetch_failed
                                          ELSE sweep.fetch_failed
                                                  \cup {ret.contract_number},
                          faults |-> sweep.faults \cup {ret.fault}]
            /\ pc' = "reported"
    /\ ret' = NoRet
    /\ pre' = NoPre
    /\ UNCHANGED <<db, sheets, today, now, cur, interrupted,
                   rss_state, prev, fetcher, norm, peer>>

\* The closing line of the sweep: "Done. Total: {processed}, changed:
\* {changed}" on standard output (daily_check) or in the chat
\* (handle_check_all); text holds the fields the line carries.  check_rss_all
\* prints nothing at its end.
SweepEnd ==
    /\ pc = "idle"
    /\ Sweeping
    /\ sweep.queue = <<>>
    /\ report' = [kind |-> sweep.kind, aborted |-> FALSE,
                  text |-> IF sweep.kind = "rss" THEN <<>>
                           ELSE [processed |-> sweep.processed,
                                 changed |-> sweep.changed],
                  n |-> sweep.n, unchecked |-> <<>>,
                  fetch_failed |-> sweep.fetch_failed, faults |-> sweep.faults,
                  polls |-> sweep.polls, invoked |-> sweep.invoked,
                  raised |-> sweep.raised]
    /\ sweep' = NoSweep
    /\ pc' = "reported"
    /\ UNCHANGED <<db, sheets, today, now, cur, ret, pre, interrupted,
                   rss_state, prev, fetcher, norm, peer>>

\* The sweep is over; what it wrote has been read.
SweepOver ==
    /\ pc = "reported"
    /\ pc' = "idle"
    /\ report' = NoReport
    /\ UNCHANGED <<db, sheets, today, now, cur, ret, pre, interrupted,
                   rss_state, sweep, prev, fetcher, norm, peer>>

\* The sweeps of daily_check and of handle_check_all over two tracked numbers.
NextSweep ==
    \/ \E n \in Ids : ~Sweeping /\ Register(n)
    \/ \E kind \in {"daily", "check_all"} :
          \E list \in SweepLists(kind) : SweepStart(kind, list)
    \/ SweepCheckFail
    \/ \E n \in Ids : \E data \in RecordsTwo(n) : SweepCheckOK(data)
    \/ \E n \in Ids : \E data \in RecordsTwo(n) : SweepDetermineRaises(data)
    \/ MasterNoAccess
    \/ PersistFail
    \/ RecordCheckStep
    \/ RecordHistoryStep
    \/ UpsertContractStep
    \/ PublishStep
    \/ NotifyRaise
    \/ SweepTake
    \/ SweepRaised
    \/ SweepEnd
    \/ SweepOver

SpecSweep == Init /\ [][NextSweep]_vars

\* Registration and removal of one number, and the operations that run
\* without an operator's command: the sweeps of daily_check and check_rss_all.
NextFeed ==
    \/ \E n \in OneId : ~Sweeping /\ Register(n)
    \/ \E n \in OneId : ~Sweeping /\ Remove(n)
    \/ \E kind \in {"daily", "rss"} :
          \E list \in SweepLists(kind) : SweepStart(kind, list)
    \/ RssSkip
    \/ \E guid \in 0..MaxGuid : RssSame(guid)
    \/ \E guid \in 0..MaxGuid : RssNew(guid)
    \/ SweepCheckFail
    \/ \E n \in OneId : \E data \in Records(n) : SweepCheckOK(data)
    \/ \E n \in OneId : \E data \in Records(n) : SweepDetermineRaises(data)
    \/ MasterNoAccess
    \/ PersistFail
    \/ RecordCheckStep
    \/ RecordHistoryStep
    \/ UpsertContractStep
    \/ PublishStep
    \/ CheckReturn
    \/ SweepTake
    \/ SweepRaised
    \/ SweepEnd
    \/ SweepOver

SpecFeed == Init /\ [][NextFeed]_vars

\* ------------------------------------------- fetch_contract_data_via_ssh
\* What one pass of the retry loop can meet:
\*   "ok"        exit status 0 and a standard output that json.loads accepts;
\*   "fail"      a non-zero exit status;
\*   "timeout"   subprocess.TimeoutExpired;
\*   "exception" any other exception raised before an outcome is logged (ssh
\*               cannot be started, an output that is not UTF-8);
\*   "badjson"   exit status 0 and a standard output that json.loads rejects.
AttemptOutcomes == {"ok", "fail", "timeout", "exception", "badjson"}

Entry(tag, a) == [tag |-> tag, attempt |-> a + 1]

\* The lines the pass with 0-based index a writes to parse.log.
AttemptLog(outcome, a) ==
    CASE outcome = "ok" -> <<Entry("START", a), Entry("OK", a)>>
      [] outcome = "fail" -> <<Entry("START", a), Entry("FAIL", a)>>
      [] outcome = "timeout" -> <<Entry("START", a), Entry("TIMEOUT", a)>>
      [] outcome = "exception" -> <<Entry("START", a), Entry("EXCEPTION", a)>>
      [] outcome = "badjson" ->
            <<Entry("START", a), Entry("OK", a), Entry("EXCEPTION", a)>>

\* Mutant: the timeout branch waits one second whatever the attempt.
Backoff_flat(outcome, a) ==
    CASE outcome = "fail" -> 2 ^ a
      [] outcome = "timeout" -> 1
      [] OTHER -> 2 ^ a

\* time.sleep(2 ** attempt) of the three failure branches.
Backoff(outcome, a) ==
    CASE outcome = "fail" -> 2 ^ a
      [] outcome = "timeout" -> 2 ^ a
      [] OTHER -> 2 ^ a

FetchCall(m) ==
    /\ fpc = "idle"
    /\ fpc' = "loop"
    /\ max_retries' = m
    /\ attempt' = 0
    /\ tried' = <<>>
    /\ parse_log' = <<>>
    /\ slept' = <<>>
    /\ fres' = "none"
    /\ UNCHANGED <<db, sheets, today, now, pc, cur, ret, pre, interrupted,
                   rss_state, sweep, report, prev, norm, peer>>

\* Mutant: the last pass lets an exception that is not a timeout escape.
FetchAttempt_reraise(outcome) ==
    /\ fpc = "loop"
    /\ attempt < max_retries
    /\ tried' = Append(tried, outcome)
    /\ parse_log' = parse_log \o AttemptLog(outcome, attempt)
    /\ IF outcome = "ok"
       THEN /\ fres' = "data"
            /\ fpc' = "done"
            /\ UNCHANGED <<attempt, slept>>
       ELSE IF attempt = max_retries - 1
            THEN /\ fres' = IF outcome \in {"exception", "badjson"}
                            THEN "raised" ELSE "None"
                 /\ fpc' = "done"
                 /\ UNCHANGED <<attempt, slept>>
            ELSE /\ slept' = Append(slept, Backoff(outcome, attempt))
                 /\ attempt' = attempt + 1
                 /\ UNCHANGED <<fpc, fres>>
    /\ UNCHANGED <<db, sheets, today, now, pc, cur, ret, pre, interrupted,
                   rss_state, sweep, report, prev, max_retries, norm, peer>>

\* Mutant: exhaustion by timeout returns a value of its own.
FetchAttempt_typed(outcome) ==
    /\ fpc = "loop"
    /\ attempt < max_retries
    /\ tried' = Append(tried, outcome)
    /\ parse_log' = parse_log \o AttemptLog(outcome, attempt)
    /\ IF outcome = "ok"
       THEN /\ fres' = "data"
            /\ fpc' = "done"
            /\ UNCHANGED <<attempt, slept>>
       ELSE IF attempt = max_retries - 1
            THEN /\ fres' = IF outcome = "timeout" THEN "TimeoutError" ELSE "None"
                 /\ fpc' = "done"
                 /\ UNCHANGED <<attempt, slept>>
            ELSE /\ slept' = Append(slept, Backoff(outcome, attempt))
                 /\ attempt' = attempt + 1
                 /\ UNCHANGED <<fpc, fres>>
    /\ UNCHANGED <<db, sheets, today, now, pc, cur, ret, pre, interrupted,
                   rss_state, sweep, report, prev, max_retries, norm, peer>>

\* One pass of `for attempt in range(max_retries)`.
FetchAttempt(outcome) ==
    /\ fpc = "loop"
    /\ attempt < max_retries
    /\ tried' = Append(tried, outcome)
    /\ parse_log' = parse_log \o AttemptLog(outcome, attempt)
    /\ IF outcome = "ok"
       THEN /\ fres' = "data"
            /\ fpc' = "done"
            /\ UNCHANGED <<attempt, slept>>
       ELSE IF attempt = max_retries - 1
            THEN /\ fres' = "None"
                 /\ fpc' = "done"
                 /\ UNCHANGED <<attempt, slept>>
            ELSE /\ slept' = Append(slept, Backoff(outcome, attempt))
                 /\ attempt' = attempt + 1
                 /\ UNCHANGED <<fpc, fres>>
    /\ UNCHANGED <<db, sheets, today, now, pc, cur, ret, pre, interrupted,
                   rss_state, sweep, report, prev, max_retries, norm, peer>>

\* range(max_retries) is empty: the return None after the loop.
FetchNoAttempt ==
    /\ fpc = "loop"
    /\ attempt >= max_retries
    /\ fres' = "None"
    /\ fpc' = "done"
    /\ UNCHANGED <<db, sheets, today, now, pc, cur, ret, pre, interrupted,
                   rss_state, sweep, report, prev,
                   max_retries, attempt, tried, parse_log, slept, norm, peer>>

\* The caller has the value; the next call starts afresh.
FetchDone ==
    /\ fpc = "done"
    /\ fpc' = "idle"
    /\ max_retries' = 0
    /\ attempt' = 0
    /\ tried' = <<>>
    /\ parse_log' = <<>>
    /\ slept' = <<>>
    /\ fres' = "none"
    /\ UNCHANGED <<db, sheets, today, now, pc, cur, ret, pre, interrupted,
                   rss_state, sweep, report, prev, norm, peer>>

NextFetch ==
    \/ \E m \in 0..MaxRetries : FetchCall(m)
    \/ \E outcome \in AttemptOutcomes : FetchAttempt(outcome)
    \/ FetchNoAttempt
    \/ FetchDone

\* ------------------------------------------------------------- normalizer
\* The pure functions of the fetch script and of the bot.  A text is a
\* sequence of words (the words of the line, separated by blanks); fn, arg
\* and out hold the function applied last, its argument and its result.
\* Cyrillic words of the source are spelled in Latin letters.
others == <<db, sheets, today, now, pc, cur, ret, pre, interrupted,
            rss_state, sweep, report, prev, fetcher, peer>>

Apply(f, a, o) ==
    /\ fn = "none"
    /\ fn' = f
    /\ arg' = a
    /\ out' = o
    /\ UNCHANGED others

\* The caller has the result.
Forget ==
    /\ fn # "none"
    /\ fn' = "none"
    /\ arg' = NoArg
    /\ out' = NoOut
    /\ UNCHANGED others

\* str.lower() on the words of the vocabulary.
Lower(w) ==
    CASE w = "OVZ" -> "ovz"
      [] w = "Itogo" -> "itogo"
      [] w = "BIK" -> "bik"
      [] w = "Obed" -> "obed"
      [] OTHER -> w

lower(text) == [i \in DOMAIN text |-> Lower(text[i])]

\* re.search / the "in" test of a keyword on a lowered text: some word of the
\* text contains the keyword.
Contains(w, keyword) ==
    CASE keyword = "1[- ]4|nachaln" -> w \in {"1-4", "nachalnaya"}
      [] keyword = "ovz|ogranichen" -> w \in {"ovz"}
      [] keyword = "5[- ]9|5[- ]11|starsh" -> w \in {"5-11"}
      [] keyword = "gpd|prodlen" -> w \in {"gpd"}
      [] keyword = "zavtrak" -> w \in {"zavtrak"}
      [] keyword = "obed" -> w \in {"obed"}
      [] keyword = "itogo" -> w \in {"itogo"}
      [] keyword = "bik" -> w \in {"bik"}
      [] keyword = "b[0-9]{9}b|b[0-9]{20}b" -> w \in {"044525225"}
      [] OTHER -> FALSE

search(keyword, text) == \E i \in DOMAIN text : Contains(text[i], keyword)

detect_category(name) ==
    LET name_lower == lower(name)
    IN  IF search("1[- ]4|nachaln", name_lower) THEN "1-4 klassy"
        ELSE IF search("ovz|ogranichen", name_lower) THEN "OVZ"
        ELSE IF search("5[- ]9|5[- ]11|starsh", name_lower) THEN "5-11 klassy"
        ELSE IF search("gpd|prodlen", name_lower) THEN "GPD"
        ELSE IF search("zavtrak", name_lower) THEN "Zavtrak"
        ELSE IF search("obed", name_lower) THEN "Obed"
        ELSE "Prochee"

\* The value clean_number of the fetch script gives for a cell that holds one
\* number (first line, blanks and currency removed, comma read as dot).
fetcher_clean_number(cell) ==
    CASE cell = "100" -> 100
      [] cell = "200" -> 200
      [] cell = "10" -> 10
      [] cell = "20" -> 20
      [] OTHER -> 0

is_requisite_row(name, price_text, total_text) ==
    LET text == lower(name \o <<price_text, total_text>>)
    IN  \/ search("bik", text)
        \/ fetcher_clean_number(total_text) = 0
               /\ search("b[0-9]{9}b|b[0-9]{20}b", text)

is_total_row(name) == name # <<>> /\ search("itogo", lower(name))

\* A Python dict is the sequence of its (key, value) pairs in insertion order.
Get(d, k) == (CHOOSE i \in DOMAIN d : d[i][1] = k)

\* The order in which sort_keys puts the keys that occur.
KeyOrder == <<"bik", "category", "inn", "name", "price", "total">>

SortKeys(d) ==
    LET ks == SelectSeq(KeyOrder, LAMBDA k : \E i \in DOMAIN d : d[i][1] = k)
    IN  [j \in DOMAIN ks |-> d[Get(d, ks[j])]]

\* json.dumps(value, ensure_ascii=False, sort_keys=...): value is a dict or a
\* list of dicts; the text is stood for by the sequence of pairs it spells.
json_dumps(value, sort_keys) ==
    IF value.t = "dict"
    THEN [t |-> "dict", v |-> IF sort_keys THEN SortKeys(value.v) ELSE value.v]
    ELSE [t |-> "list",
          v |-> [i \in DOMAIN value.v |->
                     IF sort_keys THEN SortKeys(value.v[i]) ELSE value.v[i]]]

\* SHA-256 taken as free of collisions: the digest stands for the text.
sha256(text) == text

\* Mutant: the keys are written in insertion order.
stable_hash_unsorted(value) == sha256(json_dumps(value, FALSE))

stable_hash(value) == sha256(json_dumps(value, TRUE))

\* The loop over the table rows of the objects tab: rows that look like
\* requisites are set aside, every other row becomes an item.
RECURSIVE Objects(_)
Objects(rows) ==
    IF rows = <<>> THEN <<>>
    ELSE LET r == Head(rows)
         IN  IF is_requisite_row(r.name, r.price, r.total)
             THEN Objects(Tail(rows))
             ELSE <<(<< <<"name", r.name>>,
                        <<"category", detect_category(r.name)>>,
                        <<"price", r.price>> ,
                        <<"total", r.total>> >>)>> \o Objects(Tail(rows))

objects_hash(rows) == stable_hash([t |-> "list", v |-> Objects(rows)])

\* Texts of at most n words.
Texts(W, n) == UNION {[1..k -> W] : k \in 1..n}

CategoryWords == {"OVZ", "1-4", "nachalnaya", "5-11", "gpd", "zavtrak", "Obed", "hleb"}

DetectCategory(name) ==
    Apply("detect_category", name, detect_category(name))

\* Rows of the objects table as the page shows them.
RowNames == {<<"obed">>, <<"hleb">>, <<"Itogo">>, <<"BIK">>, <<"044525225">>}
RowPrices == {"10", "20"}
RowTotals == {"0", "100", "200"}
TableRows == [name : RowNames, price : RowPrices, total : RowTotals]
Tables == UNION {[1..k -> TableRows] : k \in 1..MaxRows}

FieldValues(field) ==
    CASE field = "name" -> RowNames
      [] field = "price" -> RowPrices
      [] OTHER -> RowTotals

\* The page is read twice; between the readings one cell of one row changed.
HashEdited(rows, i, field, v) ==
    /\ rows[i][field] # v
    /\ LET edited == [rows EXCEPT ![i] = [@ EXCEPT ![field] = v]]
       IN  Apply("objects_hash",
                 [rows |-> rows, edited |-> edited, i |-> i, field |-> field],
                 [before |-> objects_hash(rows), after |-> objects_hash(edited)])

\* Dicts with the pairs of content in every insertion order.
DictsOf(content) ==
    LET K == DOMAIN content
        n == Cardinality(K)
    IN  {[i \in 1..n |-> <<f[i], content[f[i]]>>] :
            f \in {g \in [1..n -> K] : \A x, y \in 1..n : g[x] = g[y] => x = y}}

ItemContents == [name : {<<"obed">>, <<"hleb">>}, category : {"Obed"},
                 price : {"10"}, total : {"100", "200"}]
RequisiteContents == [bik : {"", "044525225"}, inn : {"", "7700000000"}]

HashValues ==
    {[t |-> "list", v |-> <<d>>] : d \in UNION {DictsOf(c) : c \in ItemContents}}
        \cup {[t |-> "dict", v |-> d] : d \in UNION {DictsOf(c) : c \in RequisiteContents}}

HashBoth(a, b) ==
    Apply("stable_hash", [a |-> a, b |-> b],
          [a |-> stable_hash(a), b |-> stable_hash(b)])

\* ---- the totals check of the detail page (bot.py)
\* Amounts are counted in hundredths.  extract_number_and_unit on a cell that
\* holds one amount with a decimal comma:
extract_number_and_unit(cell) ==
    CASE cell = "100,00" -> 10000
      [] cell = "100,01" -> 10001
      [] cell = "100,02" -> 10002
      [] OTHER -> 0

Abs(x) == IF x < 0 THEN -x ELSE x

\* abs(a - b) of two binary floats: the hundredths of the exact difference,
\* and on which side of it the computed difference falls
\* (abs(100.01 - 100.0) = 0.010000000000005116,
\*  abs(100.02 - 100.01) = 0.009999999999990905).
float_abs_diff(a, b) ==
    [cents |-> Abs(a - b),
     excess |-> CASE {a, b} = {10000, 10001} -> 1
                  [] {a, b} = {10001, 10002} -> -1
                  [] OTHER -> 0]

\* difference <= 0.01 on floats.
float_le_cent(d) == d.cents < 1 \/ (d.cents = 1 /\ d.excess <= 0)

RECURSIVE SumTotals(_)
SumTotals(objs) ==
    IF objs = <<>> THEN 0
    ELSE extract_number_and_unit(Head(objs).total) + SumTotals(Tail(objs))

NonTotal(objects) == SelectSeq(objects, LAMBDA o : ~is_total_row(o.name))

\* The total rows whose amount is positive, in the order of the list.
PositiveTotals(objects) ==
    SelectSeq(objects, LAMBDA o : is_total_row(o.name)
                                      /\ extract_number_and_unit(o.total) > 0)

validate_totals(objects_data, calculated_total) ==
    LET found == PositiveTotals(objects_data)
        has_parsed_total == found # <<>>
        parsed_total == IF has_parsed_total
                        THEN extract_number_and_unit(Head(found).total)
                        ELSE SumTotals(NonTotal(objects_data))
        difference == float_abs_diff(parsed_total, calculated_total)
    IN  [parsed_total |-> parsed_total, calculated_total |-> calculated_total,
         difference |-> difference, is_valid |-> float_le_cent(difference),
         has_parsed_total |-> has_parsed_total]

NoValidation == [none |-> TRUE]

\* The formulas add_contract_to_master writes into cells: "=Bn*Dn",
\* "=SUM(Xa:Xb)", "=C3-C10", and the text "0.0" written in place of one.
Product(row) == [f |-> "product", left |-> <<"B", row>>, right |-> <<"D", row>>]
Sum(col, from, to) == [f |-> "SUM", col |-> col, from |-> from, to |-> to]
Difference(left, right) == [f |-> "difference", left |-> left, right |-> right]
NoFormula == [f |-> "0.0"]

\* The item rows of the detail page in the order of their append_row calls:
\* position (column A), source sum (E), computed-sum formula (F), name (G).
\* Columns B to D take price, unit and quantity of parse_price_info.
item_rows(parsed_objects, start_row) ==
    [i \in DOMAIN parsed_objects |->
        LET current_row == start_row + i + 1
        IN  [kind |-> "item", position |-> i,
             total_sum |-> extract_number_and_unit(parsed_objects[i].total),
             calculated_sum_formula |-> Product(current_row),
             name |-> parsed_objects[i].name]]

\* The row of the total check formulas.
total_row(parsed_objects, start_row) ==
    LET last_row == start_row + Len(parsed_objects)
        start_data_row == start_row + 1
    IN  [kind |-> "ITOGO",
         source_total_formula |-> IF last_row > start_data_row
                                  THEN Sum("E", start_data_row, last_row)
                                  ELSE NoFormula,
         calc_total_formula |-> IF last_row > start_data_row
                                THEN Sum("F", start_data_row, last_row)
                                ELSE NoFormula]

\* add_contract_to_master from add_worksheet to its return: the rows appended
\* to the new page (the n-th appended row is row n of the page), and the pair
\* returned when no sheet call raises.
detail_page(objects) ==
    LET parsed_objects == NonTotal(objects)
        calculated_total == SumTotals(parsed_objects)
        start_row == 1
        rows == IF parsed_objects # <<>>
                THEN <<[kind |-> "header"]>> \o item_rows(parsed_objects, start_row)
                         \o <<total_row(parsed_objects, start_row)>>
                ELSE <<[kind |-> "header"], [kind |-> "placeholder"]>>
        validation_result == IF parsed_objects # <<>>
                             THEN validate_totals(objects, calculated_total)
                             ELSE NoValidation
    IN  [page |-> rows, url |-> TRUE, second |-> validation_result]

TotalCells == {"0", "100,00", "100,01", "100,02"}
ObjectLists ==
    UNION {[1..k -> [name : {<<"obed">>, <<"Itogo">>}, total : TotalCells]] : k \in 0..MaxRows}

WriteDetail(objects) == Apply("detail_page", objects, detail_page(objects))

\* ---- clean_number (bot.py)
\* Here a string is the sequence of its characters: the digits 0 and 5, the
\* comma, the dot, the blank, a letter, the currency sign ("P") and the line
\* break ("NL").  A float is its integer part and the digits of its fraction
\* without trailing zeros; None is Python's None.
Chars == {"0", "5", ",", ".", " ", "x", "P", "NL"}
Strings == UNION {[1..k -> Chars] : k \in 0..MaxLen}
Zero == [int |-> 0, frac |-> <<>>]
None == <<"None">>
Raised == [raised |-> TRUE]

IsDigit(c) == c \in {"0", "5"}
DigitVal(c) == IF c = "5" THEN 5 ELSE 0

\* str.split('\n')
RECURSIVE split(_)
split(str) ==
    IF \A i \in DOMAIN str : str[i] # "NL" THEN <<str>>
    ELSE LET k == CHOOSE i \in DOMAIN str :
                      str[i] = "NL" /\ \A j \in 1..(i - 1) : str[j] # "NL"
         IN  <<SubSeq(str, 1, k - 1)>> \o split(SubSeq(str, k + 1, Len(str)))

\* The chain of replace calls: currency sign and blanks go, comma becomes dot.
clean_line(line) ==
    LET kept == SelectSeq(line, LAMBDA c : c \notin {"P", " "})
    IN  [i \in DOMAIN kept |-> IF kept[i] = "," THEN "." ELSE kept[i]]

\* The last position of the run of digits that starts at i (i - 1 if none).
RunEnd(line, i) ==
    CHOOSE j \in (i - 1)..Len(line) :
        /\ \A m \in i..j : IsDigit(line[m])
        /\ j = Len(line) \/ ~IsDigit(line[j + 1])

\* re.search(r'(\d+\.?\d*)', line) from position from on: the leftmost match,
\* as the pair of its first and last position, or <<>>.
match_from(line, from) ==
    IF \A i \in from..Len(line) : ~IsDigit(line[i]) THEN <<>>
    ELSE LET i == CHOOSE x \in from..Len(line) :
                      IsDigit(line[x]) /\ \A y \in from..(x - 1) : ~IsDigit(line[y])
             j == RunEnd(line, i)
         IN  IF j < Len(line) /\ line[j + 1] = "."
             THEN <<i, RunEnd(line, j + 2)>>
             ELSE <<i, j>>

RECURSIVE IntVal(_)
IntVal(digits) ==
    IF digits = <<>> THEN 0
    ELSE 10 * IntVal(SubSeq(digits, 1, Len(digits) - 1)) + DigitVal(digits[Len(digits)])

RECURSIVE NoTrailingZeros(_)
NoTrailingZeros(digits) ==
    IF digits = <<>> \/ digits[Len(digits)] # "0" THEN digits
    ELSE NoTrailingZeros(SubSeq(digits, 1, Len(digits) - 1))

\* float() of a matched text.
float(text) ==
    LET dots == {i \in DOMAIN text : text[i] = "."}
        d == IF dots = {} THEN Len(text) + 1 ELSE CHOOSE i \in dots : TRUE
    IN  [int |-> IntVal(SubSeq(text, 1, d - 1)),
         frac |-> NoTrailingZeros(SubSeq(text, d + 1, Len(text)))]

Positive(number) == number.int > 0 \/ number.frac # <<>>

\* The loop over the lines: the leftmost number of the first line whose
\* leftmost number is positive.
RECURSIVE scan_lines(_)
scan_lines(lines) ==
    IF lines = <<>> THEN <<>>
    ELSE LET line == clean_line(Head(lines))
             m == match_from(line, 1)
         IN  IF m # <<>> /\ Positive(float(SubSeq(line, m[1], m[2])))
             THEN <<float(SubSeq(line, m[1], m[2]))>>
             ELSE scan_lines(Tail(lines))

\* Mutant: the test of the argument at the top is left out.
clean_number_unguarded(value_str) ==
    IF value_str = None THEN Raised
    ELSE LET lines == split(value_str)
             found == scan_lines(lines)
             first_line_clean == clean_line(lines[1])
             m == match_from(first_line_clean, 1)
         IN  IF found # <<>> THEN found[1]
             ELSE IF m # <<>> THEN float(SubSeq(first_line_clean, m[1], m[2]))
             ELSE Zero

clean_number(value_str) ==
    IF value_str = None \/ value_str = <<>> THEN Zero
    ELSE LET lines == split(value_str)
             found == scan_lines(lines)
             first_line_clean == clean_line(lines[1])
             m == match_from(first_line_clean, 1)
         IN  IF found # <<>> THEN found[1]
             ELSE IF m # <<>> THEN float(SubSeq(first_line_clean, m[1], m[2]))
             ELSE Zero

CleanNumber(value_str) == Apply("clean_number", value_str, clean_number(value_str))

\* ---- the Summary page (bot.py)
\* info_data: the rows of the Summary page, label in column A and value in
\* column B; an empty list is an empty row.
EmptyRow == [empty |-> TRUE]
Line(label, value) == [label |-> label, value |-> value]
Text(v) == [text |-> v]
Number(v) == [num |-> v]

info_data(data, contract_price_clean, paid_clean, accepted_clean) ==
    LET remainder_formula == IF contract_price_clean > 0
                             THEN Difference(<<"C", 3>>, <<"C", 10>>)
                             ELSE NoFormula
    IN  << Line("KONTRAKT", Text(data.reestr_number)),
           Line("Zakazchik", Text(data.customer)),
           Line("Cena kontrakta", Number(contract_price_clean)),
           Line("Istochnik ceny", Text("")),
           Line("Data nachala", Text("-")),
           Line("Data okonchaniya", Text("-")),
           Line("Ssylka", Text("url")),
           Line("Obekty HASH", Text(data.objects_hash)),
           Line("Rekvizity HASH", Text(data.requisites_hash)),
           EmptyRow,
           Line("ISPOLNENIE", Text("")),
           Line("Oplacheno", Number(paid_clean)),
           Line("Prinyato (Akty)", Number(accepted_clean)),
           Line("Ostatok limita", remainder_formula),
           EmptyRow,
           Line("REKVIZITY", Text("")),
           Line("Bank", Text("")),
           Line("BIK", Text("")),
           Line("R/S", Text("")),
           Line("K/S", Text("")),
           Line("Licevoj schet", Text("")),
           Line("INN", Text("")),
           Line("KPP", Text("")) >>

\* summary_ws.clear() and one append_row per row of info_data: the rows of
\* the page.  An append of an empty list either leaves a blank row or adds
\* nothing, as the store has it.
summary_page(data, contract_price_clean, paid_clean, accepted_clean, blank) ==
    SelectSeq(info_data(data, contract_price_clean, paid_clean, accepted_clean),
              LAMBDA row : blank \/ row # EmptyRow)

Amounts == {0, 40, 100}

WriteSummary(data, contract_price_clean, paid_clean, accepted_clean, blank) ==
    Apply("summary_page",
          [data |-> data, contract_price_clean |-> contract_price_clean,
           paid_clean |-> paid_clean, accepted_clean |-> accepted_clean,
           blank |-> blank],
          summary_page(data, contract_price_clean, paid_clean, accepted_clean, blank))

NextNorm ==
    \/ fn = "none" /\ \E name \in Texts(CategoryWords, MaxWords) : DetectCategory(name)
    \/ fn = "none" /\ \E rows \in Tables : \E i \in DOMAIN rows :
          \E field \in {"name", "price", "total"} : \E v \in FieldValues(field) :
              HashEdited(rows, i, field, v)
    \/ fn = "none" /\ \E a, b \in HashValues : a.t = b.t /\ HashBoth(a, b)
    \/ fn = "none" /\ \E objects \in ObjectLists : WriteDetail(objects)
    \/ fn = "none" /\ \E value_str \in Strings \cup {None} : CleanNumber(value_str)
    \/ fn = "none" /\ \E data \in RecordsTwo("A") : \E price, paid, accepted \in Amounts :
          \E blank \in BOOLEAN : WriteSummary(data, price, paid, accepted, blank)
    \/ Forget

SpecNorm == Init /\ [][NextNorm]_vars

SpecFetch == Init /\ [][NextFetch]_vars

Next ==
    \/ \E n \in OneId : CheckFetchFail(n)
    \/ \E n \in OneId : \E data \in Records(n) : CheckFetchOK(n, data)
    \/ \E n \in OneId : \E data \in Records(n) : DetermineChangesRaises(n, data)
    \/ MasterNoAccess
    \/ PersistFail
    \/ RecordCheckStep
    \/ RecordHistoryStep
    \/ UpsertContractStep
    \/ PublishStep
    \/ NotifyRaise
    \/ RaiseSeen
    \/ CheckReturn
    \/ Crash
    \/ \E n \in OneId : Register(n)
    \/ \E n \in OneId : Remove(n)
    \/ Clear
    \/ NextDay

Spec == Init /\ [][Next]_vars

\* Checks of one number by command, each call remembered for the next.
NextPublish ==
    \/ \E n \in OneId : CheckFetchFail(n)
    \/ \E n \in OneId : \E data \in Records(n) : CheckFetchOK(n, data)
    \/ MasterNoAccess
    \/ PersistFail
    \/ RecordCheckStep
    \/ RecordHistoryStep
    \/ UpsertContractStep
    \/ PublishStep
    \/ CheckReturnKeep
    \/ \E n \in OneId : Remove(n)
    \/ NextDay

SpecPublish == Init /\ [][NextPublish]_vars

\* The same operations over two tracked numbers, within one calendar day.
NextTwo ==
    \/ \E n \in Ids : CheckFetchFail(n)
    \/ \E n \in Ids : \E data \in RecordsTwo(n) : CheckFetchOK(n, data)
    \/ MasterNoAccess
    \/ PersistFail
    \/ RecordCheckStep
    \/ RecordHistoryStep
    \/ UpsertContractStep
    \/ PublishStep
    \/ CheckReturn
    \/ Crash
    \/ \E n \in Ids : Register(n)
    \/ \E n \in Ids : Remove(n)
    \/ Clear

SpecTwo == Init /\ [][NextTwo]_vars

\* -------------------------------------------------------- two processes
\* The bot, daily_check.py and check_rss_all.py are separate processes over
\* the same database file and the same sheets, each running
\* check_contract_update.  pc, cur, ret and pre belong to the process that
\* takes the next step, pc2, cur2, ret2 and pre2 to the other one; Switch
\* hands the processor to the other process, between any two steps.
Switch ==
    /\ pc' = pc2
    /\ cur' = cur2
    /\ ret' = ret2
    /\ pre' = pre2
    /\ pc2' = pc
    /\ cur2' = cur
    /\ ret2' = ret
    /\ pre2' = pre
    /\ UNCHANGED <<db, sheets, today, now, interrupted,
                   rss_state, sweep, report, prev, fetcher, norm>>

NextRace ==
    \/ \E n \in OneId : CheckFetchFail(n)
    \/ \E n \in OneId : \E data \in Records(n) : CheckFetchOK(n, data)
    \/ MasterNoAccess
    \/ RecordCheckStep
    \/ RecordHistoryStep
    \/ UpsertContractStep
    \/ PublishStep
    \/ CheckReturn
    \/ Switch

SpecRace == Init /\ [][NextRace]_vars

\* Checks of two numbers whose pages may carry any number or none.
NextStray ==
    \/ \E n \in Ids : CheckFetchFail(n)
    \/ \E n \in Ids : \E data \in FetchedRecords : CheckFetchOK(n, data)
    \/ MasterNoAccess
    \/ RecordCheckStep
    \/ RecordHistoryStep
    \/ UpsertContractStep
    \/ PublishStep
    \/ CheckReturn
    \/ \E n \in Ids : Register(n)

SpecStray == Init /\ [][NextStray]_vars

\* ------------------------------------------------------------- properties
RowsOf(tbl, k) == SelectSeq(tbl, LAMBDA r : r.reestr_number = k)
CountOf(tbl, k) == Len(RowsOf(tbl, k))
InFlight == pc \in {"master", "record_history", "upsert_contract", "publish"}
CheckReturned == pc = "returned" /\ ret.op = "check"

\* C1: for an id that has no RegistryEntry, or only a stub with empty hashes,
\* change detection on a freshly fetched record reports both dimensions
\* changed.
C1_FirstSeenBothChanged ==
    InFlight =>
        LET e == pre.contracts[cur.data.reestr_number]
        IN  (e = NoRow \/ (e.objects_hash = NULL /\ e.requisites_hash = NULL))
                => (cur.objects_changed /\ cur.requisites_changed)

C1_Witness ==
    /\ pc = "master"
    /\ pre.contracts[cur.data.reestr_number] = StubRow
    /\ cur.objects_changed /\ cur.requisites_changed

\* C2: upsert sets lastChanged to the current time if and only if
\* objectsChanged or requisitesChanged is true; when both flags are false the
\* previous lastChanged is kept while lastChecked and the other fields are
\* overwritten.  (Read in the state right after upsert_contract ran.)
C2_UpsertLastChanged ==
    pc = "publish" =>
        LET k == cur.data.reestr_number
            old == pre.contracts[k]
            new == contracts[k]
            flag == cur.objects_changed \/ cur.requisites_changed
        IN  /\ new # NoRow
            /\ new.customer = cur.data.customer
            /\ new.objects_hash = cur.data.objects_hash
            /\ new.requisites_hash = cur.data.requisites_hash
            /\ new.last_checked = now
            /\ (new.last_changed = now) <=> flag
            /\ ~flag => /\ old # NoRow
                        /\ new.last_changed = old.last_changed
                        /\ new.last_checked > old.last_checked
            /\ \A j \in Keys \ {k} : contracts[j] = pre.contracts[j]

C2_Witness ==
    /\ pc = "publish"
    /\ ~cur.objects_changed /\ ~cur.requisites_changed
    /\ contracts[cur.data.reestr_number].last_changed # NullTime
    /\ contracts[cur.data.reestr_number].last_changed
          < contracts[cur.data.reestr_number].last_checked

\* C3 (as claimed): every invocation of checkOne, whatever its outcome (fetch
\* failure, unchanged content, changed content), appends exactly one CheckEvent
\* row for that id.
C3_OneCheckEventPerAttempt ==
    CheckReturned =>
        /\ Len(checks) = Len(pre.checks) + 1
        /\ CountOf(checks, ret.contract_number)
              = CountOf(pre.checks, ret.contract_number) + 1

\* C3 (amended): an invocation appends at most one CheckEvent row; one whose
\* fetch fails, or that ends before record_check has committed (at the
\* sheet-client or Drive-folder test, or on a database error), appends none;
\* one in which record_check has committed appends exactly one, carrying the
\* record's id and hashes, whether or not the content changed.
CheckEnded == pc \in {"returned", "raised"} /\ ret.op = "check"
C3_CheckEventIffPersisted ==
    CheckEnded =>
        IF ret.at \in {"record_history", "upsert_contract", "publish"}
        THEN /\ Len(checks) = Len(pre.checks) + 1
             /\ SubSeq(checks, 1, Len(pre.checks)) = pre.checks
             /\ checks[Len(checks)].reestr_number = ret.data.reestr_number
             /\ checks[Len(checks)].objects_hash = ret.data.objects_hash
             /\ checks[Len(checks)].requisites_hash = ret.data.requisites_hash
             /\ checks[Len(checks)].checked_at = now
        ELSE checks = pre.checks

C3_Witness ==
    /\ CheckReturned
    /\ ret.fetched /\ ret.persisted /\ ~ret.changed
    /\ Len(checks) = Len(pre.checks) + 1
    /\ Len(pre.checks) > 0

\* C4 (as claimed): in checkOne with a successful fetch, recordCheck,
\* recordHistory and upsert are executed whether or not the external store is
\* reachable.
C4_PersistDespiteStoreDown ==
    (CheckReturned /\ ret.fetched) =>
        /\ Len(checks) = Len(pre.checks) + 1
        /\ contracts[ret.data.reestr_number] # NoRow
        /\ contracts[ret.data.reestr_number].objects_hash = ret.data.objects_hash
        /\ contracts[ret.data.reestr_number].requisites_hash = ret.data.requisites_hash
        /\ ret.objects_changed => Len(objects_history) = Len(pre.objects_history) + 1
        /\ ret.requisites_changed
              => Len(requisites_history) = Len(pre.requisites_history) + 1

\* The last check of k ran its persistence steps to the end.
Settled(k) ==
    /\ pc = "idle"
    /\ contracts[k] # NoRow
    /\ CountOf(checks, k) > 0
    /\ LET r == RowsOf(checks, k)
       IN  /\ contracts[k].objects_hash = r[Len(r)].objects_hash
           /\ contracts[k].requisites_hash = r[Len(r)].requisites_hash
\* No ChangeSnapshot of k repeats the hash of the one before it.
NoRepeat(tbl, k) ==
    LET r == RowsOf(tbl, k)
    IN  \A i \in 2..Len(r) : r[i].hash # r[i - 1].hash
\* The newest ChangeSnapshot of k carries hash h.
LastIs(tbl, k, h) ==
    LET r == RowsOf(tbl, k)
    IN  Len(r) > 0 /\ r[Len(r)].hash = h

\* C5 (as claimed): each change of a dimension's content is written to that
\* dimension's history table exactly once, also when a check crashes between
\* two of its persistence steps and is re-run: the hash a settled RegistryEntry
\* holds is the newest ChangeSnapshot of the dimension (at least once), and no
\* ChangeSnapshot repeats the one before it (at most once).
C5_SnapshotOncePerChange ==
    \A k \in Keys :
        /\ NoRepeat(objects_history, k)
        /\ NoRepeat(requisites_history, k)
        /\ Settled(k) =>
              /\ LastIs(objects_history, k, contracts[k].objects_hash)
              /\ LastIs(requisites_history, k, contracts[k].requisites_hash)

\* C6 (as claimed): after a crash at any point after recordCheck and before
\* publish completes, the next check of that id with the same fetched content
\* derives the same (objectsChanged, requisitesChanged) as the interrupted one.
C6_SameDecisionAfterCrash ==
    (/\ InFlight /\ interrupted # NoInt
     /\ interrupted.at \in {"record_history", "upsert_contract", "publish"}
     /\ cur.contract_number = interrupted.contract_number
     /\ cur.data = interrupted.data)
        => /\ cur.objects_changed = interrupted.objects_changed
           /\ cur.requisites_changed = interrupted.requisites_changed

\* C6 (amended): after a crash between recordCheck and the commit of upsert
\* the next check of that id with the same content derives the same decision
\* as the interrupted one; after a crash once upsert has committed (during
\* publish) it derives (false, false), whatever the interrupted check decided
\* and whatever the external store holds.
C6_DecisionFromPersistedHashes ==
    (/\ InFlight /\ interrupted # NoInt
     /\ cur.contract_number = interrupted.contract_number
     /\ cur.data = interrupted.data)
        => /\ (interrupted.at \in {"record_history", "upsert_contract"})
                => (/\ cur.objects_changed = interrupted.objects_changed
                    /\ cur.requisites_changed = interrupted.requisites_changed)
           /\ (interrupted.at = "publish")
                => (/\ ~cur.objects_changed
                    /\ ~cur.requisites_changed)

C6_Witness ==
    /\ InFlight /\ interrupted # NoInt
    /\ cur.contract_number = interrupted.contract_number
    /\ cur.data = interrupted.data
    /\ interrupted.at = "upsert_contract"
    /\ interrupted.objects_changed /\ cur.objects_changed
    /\ interrupted.requisites_changed /\ cur.requisites_changed

C6_WitnessAfterUpsert ==
    /\ InFlight /\ interrupted # NoInt
    /\ cur.contract_number = interrupted.contract_number
    /\ cur.data = interrupted.data
    /\ interrupted.at = "publish"
    /\ interrupted.objects_changed /\ ~cur.objects_changed

\* C7: when the fetch for an id fails, checkOne returns (false, false) and
\* leaves registry, checks, objects_history and requisites_history as they were.
C7_FetchFailureTouchesNothing ==
    (CheckEnded /\ ~ret.fetched) =>
        /\ ~ret.ok /\ ~ret.changed
        /\ contracts = pre.contracts
        /\ checks = pre.checks
        /\ objects_history = pre.objects_history
        /\ requisites_history = pre.requisites_history

C7_Witness ==
    /\ CheckReturned /\ ~ret.fetched
    /\ ~ret.ok /\ ~ret.changed
    /\ contracts[ret.contract_number] # NoRow
    /\ Len(checks) > 0 /\ Len(objects_history) > 0

PriorHash(e, dim) == IF e = NoRow \/ e[dim] = NULL THEN "" ELSE e[dim]

\* C8 (as claimed): in one check a ChangeSnapshot row is appended for a
\* dimension if and only if the fetched hash of that dimension differs from the
\* hash the RegistryEntry held immediately before the check.
C8_SnapshotIffHashDiffers ==
    (CheckReturned /\ ret.fetched) =>
        LET e == pre.contracts[ret.data.reestr_number]
            odiff == ret.data.objects_hash # PriorHash(e, "objects_hash")
            rdiff == ret.data.requisites_hash # PriorHash(e, "requisites_hash")
        IN  /\ Len(objects_history) = Len(pre.objects_history) + (IF odiff THEN 1 ELSE 0)
            /\ Len(requisites_history)
                  = Len(pre.requisites_history) + (IF rdiff THEN 1 ELSE 0)

\* C9: if publish fails at any step after the local persistence steps have
\* run, the CheckEvent, the ChangeSnapshot rows and the RegistryEntry update of
\* that check all remain in the store.
C9_PublishFailureKeepsRows ==
    (CheckReturned /\ ret.persisted /\ ~ret.sheet_url) =>
        LET k == ret.data.reestr_number
        IN  /\ Len(checks) = Len(pre.checks) + 1
            /\ checks[Len(checks)].reestr_number = k
            /\ checks[Len(checks)].checked_at = now
            /\ Len(objects_history)
                  = Len(pre.objects_history) + (IF ret.objects_changed THEN 1 ELSE 0)
            /\ ret.objects_changed
                  => objects_history[Len(objects_history)].hash = ret.data.objects_hash
            /\ Len(requisites_history)
                  = Len(pre.requisites_history) + (IF ret.requisites_changed THEN 1 ELSE 0)
            /\ ret.requisites_changed
                  => requisites_history[Len(requisites_history)].hash
                        = ret.data.requisites_hash
            /\ contracts[k] # NoRow
            /\ contracts[k].objects_hash = ret.data.objects_hash
            /\ contracts[k].requisites_hash = ret.data.requisites_hash
            /\ contracts[k].last_checked = now

C9_Witness ==
    /\ CheckReturned /\ ret.persisted /\ ~ret.sheet_url
    /\ ret.objects_changed /\ ~ret.requisites_changed
    /\ Len(objects_history) = Len(pre.objects_history) + 1
    /\ Len(pre.objects_history) > 0
    /\ contracts[ret.data.reestr_number].last_changed = now

\* C10: after remove(id), listIds() does not contain id and no row for id
\* remains in registry, checks, objects_history or requisites_history; the rows
\* of every other id are untouched.
C10_RemoveDeletesOnlyThatId ==
    (pc = "returned" /\ ret.op = "remove") =>
        LET n == ret.contract_number
        IN  /\ n \notin get_contract_numbers_from_db(contracts)
            /\ contracts[n] = NoRow
            /\ CountOf(checks, n) = 0
            /\ CountOf(objects_history, n) = 0
            /\ CountOf(requisites_history, n) = 0
            /\ \A j \in Keys \ {n} :
                  /\ contracts[j] = pre.contracts[j]
                  /\ RowsOf(checks, j) = RowsOf(pre.checks, j)
                  /\ RowsOf(objects_history, j) = RowsOf(pre.objects_history, j)
                  /\ RowsOf(requisites_history, j) = RowsOf(pre.requisites_history, j)

C10_Witness ==
    /\ pc = "returned" /\ ret.op = "remove"
    /\ pre.contracts[ret.contract_number] # NoRow
    /\ CountOf(pre.checks, ret.contract_number) > 0
    /\ CountOf(pre.objects_history, ret.contract_number) > 0
    /\ CountOf(pre.requisites_history, ret.contract_number) > 0
    /\ \E j \in Ids \ {ret.contract_number} :
          /\ contracts[j] # NoRow
          /\ CountOf(checks, j) > 0
          /\ CountOf(objects_history, j) > 0

\* ---------------------------------------------------- fetch properties
Failed(outcome) == outcome # "ok"

\* C15: fetch(id, maxRetries) stops after at most maxRetries attempts, makes
\* no attempt after the first successful one, and after maxRetries
\* unsuccessful attempts (non-zero exit, timeout, any other exception,
\* unparsable output) returns a failure value instead of raising.
C15_FetchBoundedNoRaise ==
    /\ Len(tried) <= max_retries
    /\ \A i \in 1..(Len(tried) - 1) : Failed(tried[i])
    /\ fpc = "loop" => \A i \in 1..Len(tried) : Failed(tried[i])
    /\ fpc = "done" =>
          /\ fres \in {"data", "None"}
          /\ fres = "data" <=> (Len(tried) > 0 /\ tried[Len(tried)] = "ok")
          /\ fres = "None" =>
                /\ Len(tried) = max_retries
                /\ \A i \in 1..Len(tried) : Failed(tried[i])

C15_Witness ==
    /\ fpc = "done"
    /\ max_retries = 3
    /\ tried = <<"fail", "timeout", "badjson">>
    /\ fres = "None"

\* The attempts of the call so far that were followed by a wait.
Waits ==
    IF fpc = "done" /\ Len(tried) > 0 THEN Len(tried) - 1 ELSE Len(tried)

\* C16: between a failed attempt with 0-based index k and the next attempt,
\* fetch waits exactly 2^k seconds, for every kind of failure; no wait happens
\* after a successful attempt or after the last failed attempt.
C16_BackoffPowersOfTwo ==
    /\ Len(slept) = Waits
    /\ \A k \in 0..(Len(slept) - 1) : slept[k + 1] = 2 ^ k

C16_Witness ==
    /\ fpc = "done"
    /\ tried = <<"fail", "timeout", "exception">>
    /\ slept = <<1, 2>>

Exhausted == fpc = "done" /\ Len(tried) > 0 /\ Failed(tried[Len(tried)])

C18_StartThenOneOutcome ==
    /\ Len(parse_log) = 2 * Len(tried)
    /\ \A i \in 1..Len(tried) :
          /\ 2 * i <= Len(parse_log)
          /\ parse_log[2 * i - 1] = Entry("START", i - 1)
          /\ parse_log[2 * i].tag \in {"OK", "FAIL", "TIMEOUT", "EXCEPTION"}
          /\ parse_log[2 * i].attempt = i

\* ---------------------------------------------------- sweep properties
\* n was registered and then removed, and not registered again.
Removed(n) == rss_state[n] # NoRow /\ contracts[n] = NoRow

\* C11 (as claimed): REMOVED is terminal: after remove(id) no sweep, feed poll
\* or other unattended operation re-creates a RegistryEntry, CheckEvent or
\* ChangeSnapshot for id; id comes back only through re-registration, as a
\* stub with no history.
C11_RemovedIsTerminal ==
    [][\A n \in Ids :
          Removed(n) =>
              /\ contracts'[n] \in {NoRow, StubRow}
              /\ CountOf(checks', n) = 0
              /\ CountOf(objects_history', n) = 0
              /\ CountOf(requisites_history', n) = 0]_vars

\* C12 (as claimed): a sweep over N tracked ids in which exactly one id's
\* fetch fails (and nothing else goes wrong) still checks the other N-1 ids,
\* raises nothing, and ends with a report of processed = N-1 and failed = 1
\* in which the failing id is named.
C12_SweepReportsOneFailure ==
    (pc = "reported" /\ Cardinality(report.fetch_failed) = 1 /\ report.faults = {}) =>
        /\ ~report.aborted
        /\ report.unchecked = <<>>
        /\ report.text.processed = report.n - 1
        /\ "failed" \in DOMAIN report.text
        /\ report.text.failed = 1
        /\ "named" \in DOMAIN report.text
        /\ report.text.named = report.fetch_failed

\* C13 (as claimed): if a Registry Store operation fails while one id is
\* checked during a sweep, checkOne does not report success for that id, and
\* the sweep goes on with the remaining ids.
C13_DbErrorMarksFailed ==
    (Sweeping /\ pc \in {"returned", "raised"} /\ ret.op = "check" /\ ret.fault = "db") =>
        /\ pc = "returned"
        /\ ~ret.ok

\* C14 (as claimed): a failure of the notification collaborator never makes
\* checkOne fail or raise, and a sweep is not aborted by it.
C14_NotifyFailureHarmless ==
    /\ pc = "raised" => ret.fault # "notify"
    /\ (pc = "reported" /\ report.aborted) => "notify" \notin report.faults

\* -------------------------------------------------- publish properties
\* The call that returned and the one before it both got as far as the
\* Summary page, on the same date, with the same record, and the second found
\* the workbook the first wrote.
TwicePublished ==
    /\ CheckReturned
    /\ ret.at = "publish"
    /\ prev # NoPrev
    /\ prev.data = ret.data
    /\ prev.today = today
    /\ prev.rewrote /\ ret.rewrote
    /\ books[ret.data.reestr_number] = pre.books[ret.data.reestr_number]

LineItem(r) == ~is_requisite_row(r.name, r.price, r.total)

\* C21 (as claimed): changing the name, price or total of a non-aggregate line
\* item changes objectsHash, and changing only the total of an aggregate row
\* leaves objectsHash unchanged.
C21_AggregateRowsNotHashed ==
    fn = "objects_hash" =>
        LET r == arg.rows[arg.i]
            e == arg.edited[arg.i]
        IN  /\ (LineItem(r) /\ ~is_total_row(r.name)) => out.before # out.after
            /\ (LineItem(r) /\ LineItem(e) /\ is_total_row(r.name) /\ arg.field = "total")
                   => out.before = out.after

\* The pairs of a dict, whatever their order.
PairsOf(d) == {d[i] : i \in DOMAIN d}

SameContent(a, b) ==
    /\ a.t = b.t
    /\ IF a.t = "dict" THEN PairsOf(a.v) = PairsOf(b.v)
       ELSE /\ Len(a.v) = Len(b.v)
            /\ \A i \in DOMAIN a.v : PairsOf(a.v[i]) = PairsOf(b.v[i])

\* C22: the content hash does not depend on the order of the keys: two item
\* lists or requisites maps with the same keys and values, given with the
\* keys in different orders, have the same hash.
C22_HashIgnoresKeyOrder ==
    (fn = "stable_hash" /\ SameContent(arg.a, arg.b)) => out.a = out.b

C22_Witness ==
    /\ fn = "stable_hash"
    /\ SameContent(arg.a, arg.b)
    /\ arg.a # arg.b
    /\ arg.a.t = "list"
    /\ out.a = out.b

\* C23 (as claimed): a name that matches both the accommodation rule and the
\* rule of the age bracket 1-4 is put in the accommodation category, and a
\* name that matches no rule gets the default category.
C23_MostSpecificRuleFirst ==
    fn = "detect_category" =>
        LET name_lower == lower(arg)
        IN  /\ (search("ovz|ogranichen", name_lower) /\ search("1[- ]4|nachaln", name_lower))
                  => out = "OVZ"
            /\ (\A k \in {"1[- ]4|nachaln", "ovz|ogranichen", "5[- ]9|5[- ]11|starsh",
                          "gpd|prodlen", "zavtrak", "obed"} : ~search(k, name_lower))
                  => out = "Prochee"

\* C24 (as claimed): the sum check compares the sum of the totals of the
\* non-aggregate items with the total of the aggregate row when one with a
\* positive value exists, otherwise with the same sum; it reports valid if and
\* only if the absolute difference is at most 0.01; and a mismatch leaves the
\* detail page written in full and the call returning the page's address.
C24_SumCheckTolerance ==
    (fn = "detail_page" /\ NonTotal(arg) # <<>>) =>
        LET items == SumTotals(NonTotal(arg))
            found == PositiveTotals(arg)
            against == IF found # <<>>
                       THEN extract_number_and_unit(Head(found).total)
                       ELSE items
        IN  /\ out.url
            /\ [r \in DOMAIN out.page |-> out.page[r].kind]
                  = <<"header">> \o [i \in DOMAIN NonTotal(arg) |-> "item"] \o <<"ITOGO">>
            /\ "is_valid" \in DOMAIN out.second
            /\ out.second.calculated_total = items
            /\ out.second.parsed_total = against
            /\ out.second.is_valid <=> Abs(against - items) <= 1

\* Every number a cleaned line holds, from left to right.
RECURSIVE NumbersFrom(_, _)
NumbersFrom(line, from) ==
    LET m == match_from(line, from)
    IN  IF m = <<>> THEN <<>>
        ELSE <<float(SubSeq(line, m[1], m[2]))>> \o NumbersFrom(line, m[2] + 1)

RECURSIVE NumbersOf(_)
NumbersOf(lines) ==
    IF lines = <<>> THEN <<>>
    ELSE NumbersFrom(clean_line(Head(lines)), 1) \o NumbersOf(Tail(lines))

\* C25 (as claimed): clean_number scans the lines from first to last and
\* returns the first positive number found on any line after stripping
\* currency signs and separators and reading a decimal comma as a dot; lines
\* that hold no positive number are passed over for a later line.
C25_FirstPositiveNumber ==
    (fn = "clean_number" /\ arg # None) =>
        LET positive == SelectSeq(NumbersOf(split(arg)), Positive)
        IN  positive # <<>> => out = positive[1]

\* C26: clean_number never raises, and it returns 0.0 for every input from
\* which no positive number can be read: null, the empty string, text without
\* digits, and inputs whose only numbers are zero.
C26_ZeroWhenNothingParses ==
    fn = "clean_number" =>
        /\ out # Raised
        /\ (arg = None \/ SelectSeq(NumbersOf(split(arg)), Positive) = <<>>) => out = Zero

C26_Witness ==
    /\ fn = "clean_number"
    /\ arg # None
    /\ Len(split(arg)) = 2
    /\ Len(NumbersOf(split(arg))) = 2
    /\ out = Zero

\* ------------------------------------------------------ history properties
IsPrefix(a, b) == Len(a) <= Len(b) /\ SubSeq(b, 1, Len(a)) = a

\* C27: the CheckEvent rows and the ChangeSnapshot rows of an id only grow:
\* except in a step that removes that id or clears the whole registry, the
\* rows of the id before the step are, unmodified and in order, the first
\* rows of the id after it.
C27_HistoryOnlyGrows ==
    [][\A k \in Keys :
          \/ k \in Ids /\ Remove(k)
          \/ Clear
          \/ /\ IsPrefix(RowsOf(checks, k), RowsOf(checks', k))
             /\ IsPrefix(RowsOf(objects_history, k), RowsOf(objects_history', k))
             /\ IsPrefix(RowsOf(requisites_history, k), RowsOf(requisites_history', k))]_vars

C27_Witness ==
    /\ CountOf(checks, "A") = 2
    /\ CountOf(objects_history, "A") = 2
    /\ pc = "upsert_contract"

\* ------------------------------------------------- registry page properties
\* What a cell of the page shows for a column value: NULL shows as empty.
Shown(v) == IF v = NULL THEN "" ELSE v

Mirrors(tbl, sheet, k) ==
    /\ tbl[k] # NoRow
    /\ sheet[k] # NoRow
    /\ sheet[k].customer = Shown(tbl[k].customer)
    /\ sheet[k].objects_hash = Shown(tbl[k].objects_hash)
    /\ sheet[k].requisites_hash = Shown(tbl[k].requisites_hash)
    /\ sheet[k].last_changed = tbl[k].last_changed

\* C28 (as claimed): after every completed registration or check of an id in
\* which the row of the Registry page was written, that row carries the same
\* customer, hashes and lastChanged value as the local RegistryEntry; an
\* unchanged check or a repeated registration blanks nothing the local entry
\* still holds.
C28_RegistryPageMirrors ==
    [][\A k \in Ids :
          (\/ /\ Register(k)
              /\ regSheet' = upsert_registry_row(regSheet, StubData(k), FALSE, FALSE, now)
           \/ /\ pc = "publish" /\ pc' = "returned"
              /\ cur.data.reestr_number = k
              /\ regSheet' = upsert_registry_row(regSheet, cur.data, cur.objects_changed,
                                                 cur.requisites_changed, now))
          => Mirrors(contracts', regSheet', k)]_vars

\* ---------------------------------------------------- sweep list properties
\* C29 (as claimed): every bulk sweep checks exactly the ids that listIds()
\* gives on the local registry when the sweep starts; the contents of the
\* external store never decide which ids are checked.
C29_SweepIdsFromLocalRegistry ==
    [][(sweep = NoSweep /\ sweep' # NoSweep /\ sweep'.kind \in {"daily", "check_all"})
          => {sweep'.queue[i] : i \in DOMAIN sweep'.queue}
                 = get_contract_numbers_from_db(contracts)]_vars

\* ------------------------------------------------------ feed poll properties
\* C30: in one feed poll, for every id whose feed showed a latest marker,
\* checkOne(id) was invoked if and only if that marker differs from the
\* marker stored for id or none was stored (NULL or empty), and after the
\* poll the stored marker is the feed's latest marker.
C30_FeedTriggersOnNewMarker ==
    (pc = "reported" /\ report.kind = "rss") =>
        \A i \in DOMAIN report.polls :
            LET p == report.polls[i]
            IN  p.latest # NoFeed =>
                    /\ p.id \in report.invoked
                          <=> (p.stored = NullTime \/ p.latest # p.stored)
                    /\ rss_state[p.id].last_guid = p.latest

C30_Witness ==
    /\ pc = "reported" /\ report.kind = "rss"
    /\ \E i \in DOMAIN report.polls :
          /\ report.polls[i].stored = 1
          /\ report.polls[i].latest = 1
          /\ report.polls[i].id \notin report.invoked

\* ------------------------------------------------ latest projection properties
Newest(tbl, k) == RowsOf(tbl, k)[CountOf(tbl, k)]

\* C31 (as claimed): after every check of an id that returned success, the
\* RegistryEntry's objects and requisites hashes are those of the most recent
\* CheckEvent of the id, and the most recent ChangeSnapshot of each dimension,
\* if there is one, carries the hash the RegistryEntry holds.
C31_RegistryIsLatestProjection ==
    (CheckReturned /\ ret.ok) =>
        LET k == ret.contract_number
        IN  /\ contracts[k] # NoRow
            /\ CountOf(checks, k) > 0
            /\ contracts[k].objects_hash = Newest(checks, k).objects_hash
            /\ contracts[k].requisites_hash = Newest(checks, k).requisites_hash
            /\ CountOf(objects_history, k) > 0
                  => Newest(objects_history, k).hash = contracts[k].objects_hash
            /\ CountOf(requisites_history, k) > 0
                  => Newest(requisites_history, k).hash = contracts[k].requisites_hash

\* --------------------------------------------------- sheet formula properties
\* The row of the page that carries the label, and the number in a cell.
RowOf(page, label) ==
    CHOOSE r \in DOMAIN page : "label" \in DOMAIN page[r] /\ page[r].label = label
CellNumber(page, cell) ==
    IF cell[1] = "B" /\ cell[2] \in DOMAIN page /\ "label" \in DOMAIN page[cell[2]]
          /\ "num" \in DOMAIN page[cell[2]].value
    THEN page[cell[2]].value.num
    ELSE 0

\* C32 (as claimed): in the Summary page of a contract with a price, the
\* remainder formula refers to the cell that holds the contract price and to
\* the cell that holds the accepted amount, so that it evaluates to price
\* minus accepted.
C32_RemainderRefersToPriceAndAccepted ==
    (fn = "summary_page" /\ arg.contract_price_clean > 0) =>
        LET remainder == out[RowOf(out, "Ostatok limita")].value
        IN  /\ remainder.f = "difference"
            /\ remainder.left = <<"B", RowOf(out, "Cena kontrakta")>>
            /\ remainder.right = <<"B", RowOf(out, "Prinyato (Akty)")>>
            /\ CellNumber(out, remainder.left) - CellNumber(out, remainder.right)
                  = arg.contract_price_clean - arg.accepted_clean

ItemRowsOf(page) == {r \in DOMAIN page : page[r].kind = "item"}

\* C33 (as claimed): in a detail page with n >= 1 non-aggregate items, the
\* computed-total formula in the row of item i multiplies the unit price cell
\* and the quantity cell of that same row, for every i in 1..n.
C33_RowFormulaSameRow ==
    (fn = "detail_page" /\ NonTotal(arg) # <<>>) =>
        /\ Cardinality(ItemRowsOf(out.page)) = Len(NonTotal(arg))
        /\ \A r \in ItemRowsOf(out.page) :
              out.page[r].calculated_sum_formula = Product(r)

\* C34 (as claimed): in a detail page with n >= 1 non-aggregate items, the
\* formulas of the grand-total row sum exactly the n item rows, also when
\* n = 1.
C34_GrandTotalSumsItemRows ==
    (fn = "detail_page" /\ NonTotal(arg) # <<>>) =>
        LET total == out.page[Len(out.page)]
        IN  /\ total.kind = "ITOGO"
            /\ total.source_total_formula.f = "SUM"
            /\ total.calc_total_formula.f = "SUM"
            /\ total.source_total_formula.col = "E"
            /\ total.calc_total_formula.col = "F"
            /\ \A g \in {total.source_total_formula, total.calc_total_formula} :
                  g.from..g.to = ItemRowsOf(out.page)

\* ---------------------------------------------------- registration properties
\* C35: registering an id that is already tracked (stubbed or checked) leaves
\* its local RegistryEntry (hashes, lastChecked and lastChanged included) and
\* all its history and check rows unchanged; registering an untracked id
\* creates a stub with the id only and empty hashes.
C35_RegisterKeepsTrackedEntry ==
    [][\A k \in Ids :
          Register(k) =>
              /\ checks' = checks
              /\ objects_history' = objects_history
              /\ requisites_history' = requisites_history
              /\ \A j \in Keys \ {k} : contracts'[j] = contracts[j]
              /\ contracts[k] # NoRow => contracts'[k] = contracts[k]
              /\ contracts[k] = NoRow =>
                    /\ contracts'[k] # NoRow
                    /\ contracts'[k].customer = NULL
                    /\ get_last_hashes(contracts', k) = <<"", "">>
                    /\ contracts'[k].last_checked = NullTime
                    /\ contracts'[k].last_changed = NullTime]_vars

\* A checked entry whose Registry sheet row was blanked by a registration made
\* after the check.
C35_Witness ==
    /\ pc = "idle"
    /\ contracts["A"] # NoRow
    /\ contracts["A"].objects_hash \in Hashes
    /\ CountOf(checks, "A") > 0
    /\ regSheet["A"] # NoRow
    /\ regSheet["A"].objects_hash = ""
    /\ regSheet["A"].last_checked >= contracts["A"].last_checked

\* ------------------------------------------------- second change properties
\* The check returned from the publishing part with the Summary page refilled
\* in the workbook that already held a detail page of today's date.
SecondPageOfDay ==
    /\ CheckReturned
    /\ ret.at = "publish"
    /\ ret.rewrote
    /\ books[ret.data.reestr_number] = pre.books[ret.data.reestr_number]
    /\ pre.detail[ret.data.reestr_number][today] > 0

\* C36 (as claimed): when publish is called with objectsChanged or
\* requisitesChanged true while a detail view of the current date exists,
\* publish still succeeds, and the store ends up with a detail view of the
\* record's current line items (changed items need a view written by this
\* call: views are only ever added, never rewritten).
C36_SecondChangeSameDayPublished ==
    (SecondPageOfDay /\ (ret.objects_changed \/ ret.requisites_changed)) =>
        /\ ret.sheet_url
        /\ ret.objects_changed => ret.created

\* ------------------------------------------------------ concurrency properties
\* Both processes have returned from a check of the same id with the same
\* fetched record, each after all three persistence steps, and theirs are the
\* only two checks since the earlier of them began.
Earlier == IF Len(pre.checks) <= Len(pre2.checks) THEN pre ELSE pre2
BothChecked ==
    /\ pc = "returned" /\ pc2 = "returned"
    /\ ret.op = "check" /\ ret2.op = "check"
    /\ ret.persisted /\ ret2.persisted
    /\ ret.data = ret2.data
    /\ Len(checks) = Len(Earlier.checks) + 2

\* C37 (as claimed): when two checks of the same id run in separate processes
\* and both fetch the same new content, exactly one ChangeSnapshot row is
\* appended for each changed dimension (none for an unchanged one), and only
\* one of the two checks decides "changed", so lastChanged advances once.
C37_ConcurrentChecksOneSnapshot ==
    BothChecked =>
        LET k == ret.data.reestr_number
            e == Earlier.contracts[k]
            odiff == ret.data.objects_hash # PriorHash(e, "objects_hash")
            rdiff == ret.data.requisites_hash # PriorHash(e, "requisites_hash")
        IN  /\ CountOf(objects_history, k)
                  = CountOf(Earlier.objects_history, k) + (IF odiff THEN 1 ELSE 0)
            /\ CountOf(requisites_history, k)
                  = CountOf(Earlier.requisites_history, k) + (IF rdiff THEN 1 ELSE 0)
            /\ ~(ret.changed /\ ret2.changed)

\* ------------------------------------------------------ feed retry properties
\* C38 (as claimed): when the check triggered by a new feed marker fails (the
\* fetch gives nothing after its retries, or the check raises), the stored
\* marker is not advanced to that marker, so that the next poll triggers the
\* check of the id again.
C38_FailedCheckKeepsMarker ==
    (pc = "reported" /\ report.kind = "rss") =>
        \A i \in DOMAIN report.polls :
            LET p == report.polls[i]
            IN  (p.id \in report.invoked
                    /\ p.id \in report.fetch_failed \cup report.raised)
                    => rss_state[p.id].last_guid = p.stored

\* ------------------------------------------------------ identifier properties
\* C39 (as claimed): a check of a requested id touches only the registry,
\* check and history rows keyed by that id, also when the fetched record
\* carries another identifier or an empty one: no row of another key is
\* created or modified, and the RegistryEntry of the requested id is the one
\* compared and updated.
C39_OnlyRequestedIdTouched ==
    (CheckReturned /\ ret.fetched) =>
        LET id == ret.contract_number
            e == pre.contracts[id]
        IN  /\ \A k \in Keys \ {id} :
                  /\ contracts[k] = pre.contracts[k]
                  /\ RowsOf(checks, k) = RowsOf(pre.checks, k)
                  /\ RowsOf(objects_history, k) = RowsOf(pre.objects_history, k)
                  /\ RowsOf(requisites_history, k) = RowsOf(pre.requisites_history, k)
            /\ ret.objects_changed
                  <=> ret.data.objects_hash # PriorHash(e, "objects_hash")
            /\ ret.requisites_changed
                  <=> ret.data.requisites_hash # PriorHash(e, "requisites_hash")
            /\ ret.persisted =>
                  /\ contracts[id] # NoRow
                  /\ contracts[id].objects_hash = ret.data.objects_hash
                  /\ contracts[id].requisites_hash = ret.data.requisites_hash

====
